---- MODULE Spec2Model ----
\* PiCAM (obsbot_capture.py, hat_ui.py): recording lifecycle, device handoff
\* between the GUI preview reader and the FFmpeg encoder subprocess, the
\* one-shot record trigger, clip numbering and the HAT FrameGrabber slot.
EXTENDS Integers, FiniteSets, Sequences, TLC

\* ---------------------------------------------------------------- bounds
MaxSpawn == 2      \* encoder subprocesses spawned over one behaviour
MaxPress == 2      \* KEY1 presses counted over one program run
MaxFail  == 2      \* consecutive cap.read() failures followed individually
MaxFrame == 2      \* distinct camera frames fed to the FrameGrabber
MaxPoll  == 9      \* HatInput.get_events calls followed
MaxLevel == 4      \* audio amplitudes are 0..MaxLevel (MaxLevel stands for 1.0)
MaxGapPoll == 7    \* get_events calls followed when they come at uneven times
MaxLines == 2      \* lines in the output of arecord -l
MaxCard  == 1      \* highest ALSA card number / sounddevice index
MaxCmd   == 2      \* parameter commands (HAT events, keys) followed

\* ------------------------------------------------------- program constants
FAIL_REOPEN == 100 \* run_gui: "if fail_count > 100" reopens the camera
N_PAGES     == 9   \* hat_ui.PAGES
PAGE_STORAGE == 8  \* index of "STORAGE" in hat_ui.PAGES
PAGE_START  == 1   \* HatUI.__init__: self._page = 1
PIN_KEY1       == 21   \* hat_ui.PIN_KEY1
PIN_JOY_UP     == 6    \* hat_ui.PIN_JOY_UP
DEBOUNCE_MS    == 70   \* HatInput.DEBOUNCE_MS
HOLD_DELAY_MS  == 400  \* HatInput.HOLD_DELAY_MS
HOLD_REPEAT_MS == 110  \* HatInput.HOLD_REPEAT_MS
AUDIO_CHANNELS == 2    \* obsbot_capture.AUDIO_CHANNELS
AUDIO_METER_DECAY_PCT == 85  \* obsbot_capture.AUDIO_METER_DECAY = 0.85
FOCUS_STEP_COARSE == 10  \* obsbot_capture.FOCUS_STEP_COARSE
FOCUS_STEP_FINE   == 2   \* obsbot_capture.FOCUS_STEP_FINE
FOCUS_MIN  == 0          \* obsbot_capture.FOCUS_MIN
FOCUS_MAX  == 255        \* obsbot_capture.FOCUS_MAX
N_FORMATS  == 7          \* obsbot_capture.N_FORMATS = len(OUTPUT_FORMATS)

VARIABLES
    \* CameraState (obsbot_capture.py 213-244)
    recording,        \* state.recording
    ffmpeg_proc,      \* state.ffmpeg_proc: 0 = None, else the id of the Popen object
    rec_start,        \* state.rec_start: FALSE = None, TRUE = a timestamp
    clip_number,      \* state.clip_number
    record_trigger,   \* state.record_trigger
    \* the machine outside the Python process
    cap_open,         \* the GUI's cv2.VideoCapture holds the V4L2 device
    nspawn,           \* number of encoder subprocesses spawned so far
    alive,            \* ids of the encoder subprocesses that have not exited
    files,            \* clip numbers of today's clips present in output_dir
    \* foreground thread: position, callee frame
    pc,               \* program position of the foreground (main) thread
    ret,              \* position the running start/stop call returns to
    result,           \* return value of the last start_recording call
    target,           \* start_recording: clip number inside output_path
    fail_count,       \* run_gui: fail_count
    last_frame,       \* run_gui: last_frame is not None
    \* HAT thread
    page,             \* HatUI._page
    \* history of the running call and of the trigger (observation only)
    call_rec,         \* state.recording when the running call was entered
    call_clip,        \* state.clip_number when the running call was entered
    call_nspawn,      \* nspawn when the running call was entered
    calls,            \* calls the running stop_recording has made on the subprocess
    iter_async,       \* this run_gui iteration found the encoder dead (782-784)
    presses,          \* KEY1 presses handled by HatUI._handle_input
    edges,            \* false -> true transitions of record_trigger
    toggles,          \* start/stop toggles done by run_gui for record_trigger
    \* FrameGrabber (hat_ui.py 235-341)
    fg_lock,          \* holder of FrameGrabber._lock, "free" when nobody
    fg_frame,         \* FrameGrabber._frame: 0 = None, else the frame stored
    fg_ok,            \* FrameGrabber._ok
    fg_fed,           \* FrameGrabber._fed
    fg_stop,          \* FrameGrabber._stop is set
    fg_late,          \* time.time() has reached _run's deadline
    fed_in_time,      \* a feed_frame() has succeeded before that deadline
    open_failed,      \* _run could not open the camera (318-321)
    stop_ret,         \* FrameGrabber.stop() has returned
    wcap_open,        \* the VideoCapture opened by _run holds the device
    w_pc,             \* position of the FrameGrabber thread in _run
    w_arg,            \* frame _run passes to feed_frame
    f_pc,             \* position of the GUI loop inside feed_frame
    f_arg,            \* frame the GUI loop passes to feed_frame
    gt_pc,            \* position of the HAT render thread inside get
    got,              \* image returned by the last get: 0 = placeholder
    h_now,            \* time.time() of the last get_events call, in ms
    h_dt,             \* ms between two get_events calls; 0 before the first
    h_polls,          \* get_events calls made
    h_last,           \* HatInput._last: TRUE = the line was released
    h_ptime,          \* HatInput._ptime, in ms
    h_rtime,          \* HatInput._rtime, in ms
    h_etime,          \* HatInput._etime, in ms
    h_events,         \* list returned by the last get_events call
    h_npress,         \* per line: press events emitted so far
    h_obs,            \* per line: times at which it was seen to go down
    h_nrep,           \* per line: repeat events since the last press event
    h_down,           \* per line: time the line was first seen down; 0 = up
    a_pc,             \* position of the AudioMeter thread
    a_stop,           \* AudioMeter._stop
    a_nch,            \* channels of the opened stream (data.shape[1])
    audio_levels,     \* CameraState.audio_levels
    audio_peaks,      \* CameraState.audio_peaks
    \* detect_audio_device (obsbot_capture.py 427-471)
    d_pc,             \* position inside detect_audio_device
    d_tool,           \* the arecord executable is installed
    d_rest,           \* lines of result.stdout the loop has not read yet
    d_sd,             \* what the sounddevice probe will meet
    alsa_card,        \* local alsa_card: -1 = None, else n of "hw:n,0"
    audio_device,     \* state.audio_device: -1 = None, else n of "hw:n,0"
    audio_enabled,    \* state.audio_enabled
    audio_device_sd,  \* state.audio_device_sd: -1 = None, else the index
    \* HatUI render thread (hat_ui.py 512-521, 754-765)
    u_pc,             \* position of the HatUI thread in _run
    u_stop,           \* HatUI._stop is set
    \* adjustable parameters (obsbot_capture.py 218-241, hat_ui.py 452)
    cs,               \* CameraState: exposure, gain, wb_temp, focus, ...
    p_sub,            \* HatUI._sub
    cam_max,          \* focus_absolute max of the camera; 0 = not probed yet
    n_cmd             \* parameter commands handled so far

stateVars == <<recording, ffmpeg_proc, rec_start, clip_number, record_trigger>>
envVars   == <<cap_open, nspawn, alive, files>>
mainVars  == <<pc, ret, result, target, fail_count, last_frame>>
callSnap  == <<call_rec, call_clip, call_nspawn, iter_async>>
callVars  == <<callSnap, calls>>
trigVars  == <<presses, edges, toggles>>
fgObs     == <<fed_in_time, open_failed, stop_ret>>
fgVars    == <<fg_lock, fg_frame, fg_ok, fg_fed, fg_stop, fg_late, fgObs,
               wcap_open, w_pc, w_arg, f_pc, f_arg, gt_pc, got>>
hatObs    == <<h_npress, h_obs, h_nrep, h_down>>
hatVars   == <<h_now, h_dt, h_polls, h_last, h_ptime, h_rtime, h_etime,
               h_events, hatObs>>
audioVars == <<a_pc, a_stop, a_nch, audio_levels, audio_peaks>>
detVars   == <<d_pc, d_tool, d_rest, d_sd, alsa_card, audio_device,
               audio_enabled, audio_device_sd>>
uiVars    == <<u_pc, u_stop>>
parVars   == <<cs, p_sub, cam_max, n_cmd>>
auxVars   == <<detVars, uiVars, parVars>>
periVars  == <<hatVars, audioVars, auxVars>>
vars == <<stateVars, envVars, mainVars, page, callVars, trigVars, fgVars,
          periVars>>

ProcIds == 1..MaxSpawn

\* ------------------------------------------------------------------ Init
\* CameraState.__init__ followed by run_gui's camera open and warm-up.
StateInit ==
    /\ recording = FALSE
    /\ ffmpeg_proc = 0
    /\ rec_start = FALSE
    /\ clip_number = 1
    /\ record_trigger = FALSE

\* FrameGrabber.__init__ (245-253); the thread is not started yet.
FgInit ==
    /\ fg_lock = "free"
    /\ fg_frame = 0
    /\ fg_ok = FALSE
    /\ fg_fed = FALSE
    /\ fg_stop = FALSE
    /\ fg_late = FALSE
    /\ fed_in_time = FALSE
    /\ open_failed = FALSE
    /\ stop_ret = FALSE
    /\ wcap_open = FALSE
    /\ w_pc = "w_none"
    /\ w_arg = 0
    /\ f_pc = "f_idle"
    /\ f_arg = 0
    /\ gt_pc = "gt_idle"
    /\ got = 0

\* The lines of ALL_INPUT_PINS (88-91) followed here, in its order: KEY1
\* stands for the six lines without key-repeat, JOY_UP for the two with it.
ALL_INPUT_PINS == <<PIN_KEY1, PIN_JOY_UP>>
PinSet == {ALL_INPUT_PINS[i] : i \in 1..Len(ALL_INPUT_PINS)}
repeat_pins == {PIN_JOY_UP}

\* time.time() when the program starts: any value far above the debounce
\* window, as the epoch time is.
StartTime == 1000

\* HatInput.__init__ (352-361): all lines released, all times 0.0.
HatInputInit ==
    /\ h_now = StartTime
    /\ h_dt = 0
    /\ h_polls = 0
    /\ h_last = [p \in PinSet |-> TRUE]
    /\ h_ptime = [p \in PinSet |-> 0]
    /\ h_rtime = [p \in PinSet |-> 0]
    /\ h_etime = [p \in PinSet |-> 0]
    /\ h_events = <<>>
    /\ h_npress = [p \in PinSet |-> 0]
    /\ h_obs = [p \in PinSet |-> <<>>]
    /\ h_nrep = [p \in PinSet |-> 0]
    /\ h_down = [p \in PinSet |-> 0]

Channels == 0..(AUDIO_CHANNELS - 1)
Levels == 0..MaxLevel

\* CameraState.__init__ 242-243 and AudioMeter.__init__ 481-484.
AudioInit ==
    /\ a_pc = "a_none"
    /\ a_stop = FALSE
    /\ a_nch = 0
    /\ audio_levels = [ch \in Channels |-> 0]
    /\ audio_peaks = [ch \in Channels |-> 0]

\* CameraState.__init__ 237-239; detect_audio_device has not been called.
DetectInit ==
    /\ d_pc = "d_none"
    /\ d_tool = TRUE
    /\ d_rest = <<>>
    /\ d_sd = [kind |-> "no_module", idx |-> -1]
    /\ alsa_card = -1
    /\ audio_device = -1
    /\ audio_enabled = TRUE
    /\ audio_device_sd = -1

\* HatUI.__init__ (440-452); the render thread is not started yet.
HatUIInit ==
    /\ u_pc = "u_none"
    /\ u_stop = FALSE

\* CameraState.__init__ 218-241 (no saved config) and HatUI.__init__ 452.
ParamInit ==
    /\ cs = [exposure |-> 500, gain |-> 100, wb_temp |-> 5600,
             auto_wb |-> FALSE, auto_exp |-> FALSE, auto_focus |-> TRUE,
             focus |-> 128, focus_max |-> FOCUS_MAX, mic_gain_db |-> 0,
             output_format_idx |-> 0]
    /\ p_sub = 0
    /\ cam_max = 0
    /\ n_cmd = 0

AuxInit == DetectInit /\ HatUIInit /\ ParamInit

PeriInit == HatInputInit /\ AudioInit /\ AuxInit

Init ==
    /\ StateInit
    /\ FgInit
    /\ PeriInit
    /\ cap_open = TRUE
    /\ nspawn = 0
    /\ alive = {}
    /\ files = {}
    /\ pc = "idle"
    /\ ret = "idle"
    /\ result = FALSE
    /\ target = 0
    /\ fail_count = 0
    /\ last_frame = FALSE
    /\ page = PAGE_START
    /\ call_rec = FALSE
    /\ call_clip = 1
    /\ call_nspawn = 0
    /\ calls = <<>>
    /\ iter_async = FALSE
    /\ presses = 0
    /\ edges = 0
    /\ toggles = 0

\* run_gui passes its VideoCapture as cap; run_headless (1454, 1456, 1523)
\* and main._exit (1671) call start_recording(state) / stop_recording(state)
\* with cap = None.
CapPassed == ret \notin {"h_update", "h_close", "x_hat"}

\* Entering start_recording / stop_recording from position r.
Enter(entry, r) ==
    /\ pc' = entry
    /\ ret' = r
    /\ call_rec' = recording
    /\ call_clip' = clip_number
    /\ call_nspawn' = nspawn
    /\ calls' = <<>>
    /\ iter_async' = (iter_async \/ r = "g_trig")

\* --------------------------------------------------- start_recording
\* Variant of StartCheck that tests the subprocess handle, not recording.
StartCheck_HandleOnly ==
    /\ pc = "st_check"
    /\ IF ffmpeg_proc # 0 /\ ffmpeg_proc \notin alive
         THEN /\ pc' = "st_ret"
              /\ result' = FALSE
         ELSE /\ pc' = "st_mkdir"
              /\ UNCHANGED result
    /\ UNCHANGED <<fgVars, periVars, stateVars, envVars, ret, target, fail_count, last_frame,
                   page, callVars, trigVars>>

\* 602-603: rejected while recording.
StartCheck ==
    /\ pc = "st_check"
    /\ IF recording
         THEN /\ pc' = "st_ret"
              /\ result' = FALSE
         ELSE /\ pc' = "st_mkdir"
              /\ UNCHANGED result
    /\ UNCHANGED <<fgVars, periVars, stateVars, envVars, ret, target, fail_count, last_frame,
                   page, callVars, trigVars>>

\* 605-606: output directory, output_path built from clip_name.
StartMkdir ==
    /\ pc = "st_mkdir"
    /\ target' = clip_number
    /\ pc' = "st_release"
    /\ UNCHANGED <<fgVars, periVars, stateVars, envVars, ret, result, fail_count, last_frame,
                   page, callVars, trigVars>>

\* 609-611: release the preview reader's hold on the device (if cap is
\* not None).
StartRelease ==
    /\ pc = "st_release"
    /\ cap_open' = IF CapPassed THEN FALSE ELSE cap_open
    /\ pc' = "st_spawn"
    /\ UNCHANGED <<fgVars, periVars, stateVars, nspawn, alive, files, ret, result, target,
                   fail_count, last_frame, page, callVars, trigVars>>

\* 613-623 with 634-639: Popen either raises (ffmpeg missing, or another
\* error) and start returns False, or returns a running subprocess.
StartSpawn ==
    /\ pc = "st_spawn"
    /\ \/ /\ nspawn < MaxSpawn
          /\ nspawn' = nspawn + 1
          /\ alive' = alive \cup {nspawn + 1}
          /\ ffmpeg_proc' = nspawn + 1
          /\ pc' = "st_verify"
          /\ UNCHANGED result
       \/ /\ pc' = "st_ret"
          /\ result' = FALSE
          /\ UNCHANGED <<nspawn, alive, ffmpeg_proc>>
    /\ UNCHANGED <<fgVars, periVars, recording, rec_start, clip_number, record_trigger,
                   cap_open, files, ret, target, fail_count, last_frame,
                   page, callVars, trigVars>>

\* 624-628 with 637-639: after the grace period poll() finds the encoder
\* exited (handle cleared, False), or alive, or the verification raises
\* (False, handle left as it is).
StartVerify ==
    /\ pc = "st_verify"
    /\ \/ /\ ffmpeg_proc \notin alive
          /\ ffmpeg_proc' = 0
          /\ pc' = "st_ret"
          /\ result' = FALSE
       \/ /\ ffmpeg_proc \in alive
          /\ pc' = "st_set_rec"
          /\ UNCHANGED <<ffmpeg_proc, result>>
       \/ /\ pc' = "st_ret"
          /\ result' = FALSE
          /\ UNCHANGED ffmpeg_proc
    /\ UNCHANGED <<fgVars, periVars, recording, rec_start, clip_number, record_trigger,
                   envVars, ret, target, fail_count, last_frame,
                   page, callVars, trigVars>>

\* 630: state.recording = True.  The encoder (ffmpeg -y) has opened its
\* output by now: the target clip file exists.
StartSetRecording ==
    /\ pc = "st_set_rec"
    /\ recording' = TRUE
    /\ files' = files \cup {target}
    /\ pc' = "st_set_start"
    /\ UNCHANGED <<fgVars, periVars, ffmpeg_proc, rec_start, clip_number, record_trigger,
                   cap_open, nspawn, alive, ret, result, target, fail_count,
                   last_frame, page, callVars, trigVars>>

\* 631-633: state.rec_start = time.time(); return True.
StartSetRecStart ==
    /\ pc = "st_set_start"
    /\ rec_start' = TRUE
    /\ result' = TRUE
    /\ pc' = "st_ret"
    /\ UNCHANGED <<fgVars, periVars, recording, ffmpeg_proc, clip_number, record_trigger,
                   envVars, ret, target, fail_count, last_frame,
                   page, callVars, trigVars>>

StartReturn ==
    /\ pc = "st_ret"
    /\ pc' = ret
    /\ UNCHANGED <<fgVars, periVars, stateVars, envVars, ret, result, target, fail_count,
                   last_frame, page, callVars, trigVars>>

\* ---------------------------------------------------- stop_recording
\* Outcomes of the calls on the subprocess: a successful kill() ends the
\* encoder at once; kill() raises only on an encoder that is still alive and
\* leaves it alive; the write raises BrokenPipeError only when the encoder
\* has exited.
\* Variant of StopCheck whose guard looks at the handle only.
StopCheck_HandleOnly ==
    /\ pc = "sp_check"
    /\ pc' = IF ffmpeg_proc = 0 THEN "sp_ret"
             ELSE IF ffmpeg_proc \in alive THEN "sp_write"
             ELSE "sp_clear_rec"
    /\ UNCHANGED <<fgVars, periVars, stateVars, envVars, ret, result, target, fail_count,
                   last_frame, page, callVars, trigVars>>

\* 647-650, 665-666: no-op unless recording with a handle; then poll().
StopCheck ==
    /\ pc = "sp_check"
    /\ pc' = IF ~recording \/ ffmpeg_proc = 0 THEN "sp_ret"
             ELSE IF ffmpeg_proc \in alive THEN "sp_write"
             ELSE "sp_clear_rec"
    /\ UNCHANGED <<fgVars, periVars, stateVars, envVars, ret, result, target, fail_count,
                   last_frame, page, callVars, trigVars>>

\* 652-653 with 655-656, 661-662: write b"q" and flush.  The write reaches
\* a live encoder, or raises BrokenPipeError because the encoder has exited
\* since the poll (pass: straight to the cleanup), or raises another error.
StopWriteQuit ==
    /\ pc = "sp_write"
    /\ \/ /\ ffmpeg_proc \in alive
          /\ calls' = Append(calls, "write")
          /\ pc' = "sp_wait"
       \/ /\ ffmpeg_proc \notin alive
          /\ calls' = Append(calls, "write_pipe")
          /\ pc' = "sp_clear_rec"
       \/ /\ ffmpeg_proc \in alive
          /\ calls' = Append(calls, "write_err")
          /\ pc' = "sp_kill_generic"
    /\ UNCHANGED <<fgVars, periVars, stateVars, envVars, ret, result, target, fail_count,
                   last_frame, page, callSnap, trigVars>>

\* 654 with 657-658, 661-662: wait(timeout=10).  The encoder finalises the
\* file and exits within the bound, or the wait times out with the encoder
\* still alive, or the wait raises another exception.
StopWaitBounded ==
    /\ pc = "sp_wait"
    /\ \/ /\ alive' = alive \ {ffmpeg_proc}
          /\ calls' = Append(calls, "wait10")
          /\ pc' = "sp_clear_rec"
       \/ /\ ffmpeg_proc \in alive
          /\ calls' = Append(calls, "wait10_timeout")
          /\ pc' = "sp_kill_timeout"
          /\ UNCHANGED alive
       \/ /\ calls' = Append(calls, "wait10_err")
          /\ pc' = "sp_kill_generic"
          /\ UNCHANGED alive
    /\ UNCHANGED <<fgVars, periVars, stateVars, cap_open, nspawn, files, ret, result, target,
                   fail_count, last_frame, page, callSnap, trigVars>>

\* Variant of StopKillAfterTimeout that goes to the cleanup without wait().
StopKillAfterTimeout_NoWait ==
    /\ pc = "sp_kill_timeout"
    /\ \/ /\ alive' = alive \ {ffmpeg_proc}
          /\ calls' = Append(calls, "kill")
          /\ pc' = "sp_clear_rec"
       \/ /\ ffmpeg_proc \in alive
          /\ calls' = Append(calls, "kill_err")
          /\ pc' = "sp_raise"
          /\ UNCHANGED alive
    /\ UNCHANGED <<fgVars, periVars, stateVars, cap_open, nspawn, files, ret, result, target,
                   fail_count, last_frame, page, callSnap, trigVars>>

\* 659: kill() in the TimeoutExpired handler.  An exception raised here is
\* not caught by the sibling "except Exception": it leaves stop_recording.
StopKillAfterTimeout ==
    /\ pc = "sp_kill_timeout"
    /\ \/ /\ alive' = alive \ {ffmpeg_proc}
          /\ calls' = Append(calls, "kill")
          /\ pc' = "sp_wait_killed"
       \/ /\ ffmpeg_proc \in alive
          /\ calls' = Append(calls, "kill_err")
          /\ pc' = "sp_raise"
          /\ UNCHANGED alive
    /\ UNCHANGED <<fgVars, periVars, stateVars, cap_open, nspawn, files, ret, result, target,
                   fail_count, last_frame, page, callSnap, trigVars>>

\* 660: wait() without a bound returns once the killed encoder has exited.
StopWaitKilled ==
    /\ pc = "sp_wait_killed"
    /\ ffmpeg_proc \notin alive
    /\ calls' = Append(calls, "wait")
    /\ pc' = "sp_clear_rec"
    /\ UNCHANGED <<fgVars, periVars, stateVars, envVars, ret, result, target, fail_count,
                   last_frame, page, callSnap, trigVars>>

\* 663-664: "try: kill() except Exception: pass", no wait afterwards.
StopKillGeneric ==
    /\ pc = "sp_kill_generic"
    /\ \/ /\ alive' = alive \ {ffmpeg_proc}
          /\ calls' = Append(calls, "kill")
       \/ /\ ffmpeg_proc \in alive
          /\ calls' = Append(calls, "kill_err")
          /\ UNCHANGED alive
    /\ pc' = "sp_clear_rec"
    /\ UNCHANGED <<fgVars, periVars, stateVars, cap_open, nspawn, files, ret, result, target,
                   fail_count, last_frame, page, callSnap, trigVars>>

\* 668: state.recording = False
StopClearRecording ==
    /\ pc = "sp_clear_rec"
    /\ recording' = FALSE
    /\ pc' = "sp_clear_start"
    /\ UNCHANGED <<fgVars, periVars, ffmpeg_proc, rec_start, clip_number, record_trigger,
                   envVars, ret, result, target, fail_count, last_frame,
                   page, callVars, trigVars>>

\* 669: state.rec_start = None
StopClearRecStart ==
    /\ pc = "sp_clear_start"
    /\ rec_start' = FALSE
    /\ pc' = "sp_inc_clip"
    /\ UNCHANGED <<fgVars, periVars, recording, ffmpeg_proc, clip_number, record_trigger,
                   envVars, ret, result, target, fail_count, last_frame,
                   page, callVars, trigVars>>

\* 670: state.clip_number += 1
StopIncClip ==
    /\ pc = "sp_inc_clip"
    /\ clip_number' = clip_number + 1
    /\ pc' = "sp_clear_proc"
    /\ UNCHANGED <<fgVars, periVars, recording, ffmpeg_proc, rec_start, record_trigger,
                   envVars, ret, result, target, fail_count, last_frame,
                   page, callVars, trigVars>>

\* 671: state.ffmpeg_proc = None
StopClearProc ==
    /\ pc = "sp_clear_proc"
    /\ ffmpeg_proc' = 0
    /\ pc' = "sp_reopen"
    /\ UNCHANGED <<fgVars, periVars, recording, rec_start, clip_number, record_trigger,
                   envVars, ret, result, target, fail_count, last_frame,
                   page, callVars, trigVars>>

\* 675-683: reopen the camera for the GUI preview (if cap is not None).
StopReopen ==
    /\ pc = "sp_reopen"
    /\ cap_open' = IF CapPassed THEN TRUE ELSE cap_open
    /\ pc' = "sp_ret"
    /\ UNCHANGED <<fgVars, periVars, stateVars, nspawn, alive, files, ret, result, target,
                   fail_count, last_frame, page, callVars, trigVars>>

StopReturn ==
    /\ pc = "sp_ret"
    /\ pc' = ret
    /\ calls' = <<>>
    /\ UNCHANGED <<fgVars, periVars, stateVars, envVars, ret, result, target, fail_count,
                   last_frame, page, callSnap, trigVars>>

\* An exception leaving stop_recording: a direct caller sees it; run_gui and
\* main() have no handler, so the program ends with a traceback.
StopRaise ==
    /\ pc = "sp_raise"
    /\ pc' = IF ret = "idle" THEN "idle" ELSE "crashed"
    /\ calls' = <<>>
    /\ UNCHANGED <<fgVars, periVars, stateVars, envVars, ret, result, target, fail_count,
                   last_frame, page, callSnap, trigVars>>

\* ------------------------------------------------------- environment
\* The encoder subprocess exits on its own (device error, disk full, crash).
EncoderExits ==
    /\ \E p \in alive : alive' = alive \ {p}
    /\ UNCHANGED <<fgVars, periVars, stateVars, cap_open, nspawn, files, mainVars, page,
                   callVars, trigVars>>

\* ------------------------------------- direct calls of the two operations
\* start_recording(state, cap) / stop_recording(state, cap, ...) called in
\* any order, as the unit tests do.
CallStart ==
    /\ pc = "idle"
    /\ Enter("st_check", "idle")
    /\ UNCHANGED <<fgVars, periVars, stateVars, envVars, result, target, fail_count,
                   last_frame, page, trigVars>>

CallStop ==
    /\ pc = "idle"
    /\ Enter("sp_check", "idle")
    /\ UNCHANGED <<fgVars, periVars, stateVars, envVars, result, target, fail_count,
                   last_frame, page, trigVars>>

StartSteps ==
    \/ StartCheck \/ StartMkdir \/ StartRelease \/ StartSpawn
    \/ StartVerify \/ StartSetRecording \/ StartSetRecStart \/ StartReturn

StopSteps ==
    \/ StopCheck \/ StopWriteQuit \/ StopWaitBounded \/ StopKillAfterTimeout
    \/ StopWaitKilled \/ StopKillGeneric \/ StopClearRecording
    \/ StopClearRecStart \/ StopIncClip \/ StopClearProc \/ StopReopen
    \/ StopReturn \/ StopRaise

Next ==
    \/ CallStart \/ CallStop
    \/ StartSteps \/ StopSteps
    \/ EncoderExits

Spec == Init /\ [][Next]_vars

\* A call that has been entered runs on: the foreground thread is never
\* suspended for ever inside start_recording or stop_recording.
SpecFair == Spec /\ WF_vars(StartSteps \/ StopSteps)

\* ------------------------------------------------------ run_headless
\* 1445-1448: sleep 0.08 s, get_key() gives no key, or a key other than
\* Q and R (1457-1515: parameter keys).
HeadlessNoKey ==
    /\ pc = "h_top"
    /\ pc' = "h_update"
    /\ UNCHANGED <<fgVars, periVars, stateVars, envVars, ret, result, target, fail_count,
                   last_frame, page, callVars, trigVars>>

\* 1452-1456: R stops when recording, else starts; no cap is passed.
HeadlessKeyR ==
    /\ pc = "h_top"
    /\ Enter(IF recording THEN "sp_check" ELSE "st_check", "h_update")
    /\ UNCHANGED <<fgVars, periVars, stateVars, envVars, result, target, fail_count,
                   last_frame, page, trigVars>>

\* 1450-1451: Q leaves the loop.
HeadlessKeyQ ==
    /\ pc = "h_top"
    /\ pc' = "h_end"
    /\ UNCHANGED <<fgVars, periVars, stateVars, envVars, ret, result, target, fail_count,
                   last_frame, page, callVars, trigVars>>

\* 1517: live.update(make_dashboard()), end of the iteration.
HeadlessUpdate ==
    /\ pc = "h_update"
    /\ pc' = "h_top"
    /\ UNCHANGED <<fgVars, periVars, stateVars, envVars, ret, result, target, fail_count,
                   last_frame, page, callVars, trigVars>>

\* 1519-1523: finally: restore the terminal, meter.stop(), stop a running
\* recording.
HeadlessFinally ==
    /\ pc = "h_end"
    /\ IF recording
         THEN Enter("sp_check", "h_close")
         ELSE pc' = "h_close" /\ UNCHANGED <<ret, callVars>>
    /\ UNCHANGED <<fgVars, periVars, stateVars, envVars, result, target, fail_count,
                   last_frame, page, trigVars>>

\* 1524: state.save_config(); the program ends.
HeadlessClose ==
    /\ pc = "h_close"
    /\ pc' = "exited"
    /\ UNCHANGED <<fgVars, periVars, stateVars, envVars, ret, result, target, fail_count,
                   last_frame, page, callVars, trigVars>>

HeadlessSteps ==
    \/ HeadlessNoKey \/ HeadlessKeyR \/ HeadlessKeyQ
    \/ HeadlessUpdate \/ HeadlessFinally \/ HeadlessClose

\* run_headless opens no VideoCapture of its own.
InitHeadless ==
    /\ StateInit
    /\ FgInit
    /\ PeriInit
    /\ cap_open = FALSE
    /\ nspawn = 0
    /\ alive = {}
    /\ files = {}
    /\ pc = "h_top"
    /\ ret = "h_update"
    /\ result = FALSE
    /\ target = 0
    /\ fail_count = 0
    /\ last_frame = FALSE
    /\ page = PAGE_START
    /\ call_rec = FALSE
    /\ call_clip = 1
    /\ call_nspawn = 0
    /\ calls = <<>>
    /\ iter_async = FALSE
    /\ presses = 0
    /\ edges = 0
    /\ toggles = 0

NextHeadless ==
    \/ HeadlessSteps
    \/ StartSteps \/ StopSteps
    \/ EncoderExits

\* The loop keeps running and a call that has been entered runs on; the
\* operator is not bound to press any key.
HeadlessProgress ==
    \/ HeadlessNoKey \/ HeadlessUpdate \/ HeadlessFinally \/ HeadlessClose
    \/ StartSteps \/ StopSteps

SpecHeadless == InitHeadless /\ [][NextHeadless]_vars /\ WF_vars(HeadlessProgress)

\* ----------------------------------------------------------- run_gui
\* 779-810: top of the loop.  While recording the encoder owns the camera:
\* a dead encoder is handed to stop_recording, otherwise the last frame is
\* reused.  While not recording a frame is read; after a failed read the
\* iteration is abandoned ("continue"), and more than FAIL_REOPEN failures
\* in a row release and reopen the camera.  Failed iterations change
\* nothing but fail_count, so once MaxFail of them have been followed one by
\* one the run of failures up to FAIL_REOPEN is taken as a single step.
GuiTop ==
    /\ pc = "g_top"
    /\ \/ /\ recording /\ ffmpeg_proc # 0 /\ ffmpeg_proc \notin alive
          /\ Enter("sp_check", "g_trig")
          /\ UNCHANGED <<cap_open, fail_count, last_frame>>
       \/ /\ recording /\ ~(ffmpeg_proc # 0 /\ ffmpeg_proc \notin alive)
          /\ pc' = IF last_frame THEN "g_trig" ELSE "g_top"
          /\ iter_async' = FALSE
          /\ UNCHANGED <<cap_open, fail_count, last_frame, ret,
                         call_rec, call_clip, call_nspawn, calls>>
       \/ /\ ~recording /\ cap_open
          /\ fail_count' = 0
          /\ last_frame' = TRUE
          /\ pc' = "g_trig"
          /\ iter_async' = FALSE
          /\ UNCHANGED <<cap_open, ret, call_rec, call_clip, call_nspawn, calls>>
       \/ /\ ~recording
          /\ IF fail_count + 1 > FAIL_REOPEN
               THEN cap_open' = TRUE /\ fail_count' = 0
               ELSE /\ fail_count' = IF fail_count < MaxFail
                                       THEN fail_count + 1 ELSE FAIL_REOPEN
                    /\ UNCHANGED cap_open
          /\ pc' = "g_top"
          /\ iter_async' = FALSE
          /\ UNCHANGED <<last_frame, ret, call_rec, call_clip, call_nspawn, calls>>
    /\ UNCHANGED <<fgVars, periVars, stateVars, nspawn, alive, files, result, target, page,
                   trigVars>>

\* 813: if state.record_trigger
GuiReadTrigger ==
    /\ pc = "g_trig"
    /\ pc' = IF record_trigger THEN "g_clear" ELSE "g_key"
    /\ UNCHANGED <<fgVars, periVars, stateVars, envVars, ret, result, target, fail_count,
                   last_frame, page, callVars, trigVars>>

\* Variant of GuiClearToggle that acts on the trigger without clearing it.
GuiClearToggle_KeepsFlag ==
    /\ pc = "g_clear"
    /\ toggles' = toggles + 1
    /\ Enter(IF recording THEN "sp_check" ELSE "st_check", "g_key")
    /\ UNCHANGED <<fgVars, periVars, stateVars, envVars, result, target, fail_count,
                   last_frame, page, presses, edges>>

\* 814-819: clear the trigger and toggle: stop when recording, else start.
GuiClearToggle ==
    /\ pc = "g_clear"
    /\ record_trigger' = FALSE
    /\ toggles' = toggles + 1
    /\ Enter(IF recording THEN "sp_check" ELSE "st_check", "g_key")
    /\ UNCHANGED <<fgVars, periVars, recording, ffmpeg_proc, rec_start, clip_number, envVars,
                   result, target, fail_count, last_frame, page,
                   presses, edges>>

\* 821-941: feed the HAT grabber (see the FrameGrabber part), draw, then
\* the keyboard: R toggles recording, Q/ESC leaves the loop, any other key
\* or none goes round.
GuiKey ==
    /\ pc = "g_key"
    /\ \/ /\ pc' = "g_top"
          /\ UNCHANGED <<ret, callVars>>
       \/ Enter(IF recording THEN "sp_check" ELSE "st_check", "g_top")
       \/ /\ pc' = "g_quit"
          /\ UNCHANGED <<ret, callVars>>
    /\ UNCHANGED <<fgVars, periVars, stateVars, envVars, result, target, fail_count,
                   last_frame, page, trigVars>>

\* 1042-1043: after the loop, stop a running recording.
GuiQuit ==
    /\ pc = "g_quit"
    /\ IF recording
         THEN Enter("sp_check", "g_close")
         ELSE pc' = "g_close" /\ UNCHANGED <<ret, callVars>>
    /\ UNCHANGED <<fgVars, periVars, stateVars, envVars, result, target, fail_count,
                   last_frame, page, trigVars>>

\* 1044-1047: meter.stop(), save_config(), cap.release(); the program ends.
GuiClose ==
    /\ pc = "g_close"
    /\ cap_open' = FALSE
    /\ pc' = "exited"
    /\ UNCHANGED <<fgVars, periVars, stateVars, nspawn, alive, files, ret, result, target,
                   fail_count, last_frame, page, callVars, trigVars>>

\* main(): the program is run again.  CameraState() starts from its
\* defaults (clip_number is not in the saved config), run_gui opens the
\* camera (it exits at once when the device cannot be opened), the HAT
\* starts on its first page.  The output directory is what it was.
ProgramRestart ==
    /\ pc \in {"exited", "crashed"}
    /\ alive = {}
    /\ recording' = FALSE
    /\ ffmpeg_proc' = 0
    /\ rec_start' = FALSE
    /\ clip_number' = 1
    /\ record_trigger' = FALSE
    /\ cap_open' = TRUE
    /\ pc' = "g_top"
    /\ ret' = "g_top"
    /\ result' = FALSE
    /\ target' = 0
    /\ fail_count' = 0
    /\ last_frame' = FALSE
    /\ page' = PAGE_START
    /\ call_rec' = FALSE
    /\ call_clip' = 1
    /\ call_nspawn' = nspawn
    /\ calls' = <<>>
    /\ iter_async' = FALSE
    /\ presses' = 0
    /\ edges' = 0
    /\ toggles' = 0
    /\ UNCHANGED <<fgVars, periVars, nspawn, alive, files>>

\* -------------------------------------------- HatUI._handle_input
HatRunning == pc \notin {"exited", "crashed"}

\* 553-558: KEY1 press sets the trigger.
HatKey1 ==
    /\ HatRunning
    /\ presses < MaxPress
    /\ record_trigger' = TRUE
    /\ presses' = presses + 1
    /\ edges' = IF record_trigger THEN edges ELSE edges + 1
    /\ UNCHANGED <<fgVars, periVars, recording, ffmpeg_proc, rec_start, clip_number, envVars,
                   mainVars, page, callVars, toggles>>

\* 560-565: JOY LEFT, previous page.
HatJoyLeft ==
    /\ HatRunning
    /\ page' = (page - 1) % N_PAGES
    /\ p_sub' = 0
    /\ UNCHANGED <<fgVars, hatVars, audioVars, detVars, uiVars, cs, cam_max, n_cmd,
                   stateVars, envVars, mainVars, callVars, trigVars>>

\* 567-572: JOY RIGHT, next page.
HatJoyRight ==
    /\ HatRunning
    /\ page' = (page + 1) % N_PAGES
    /\ p_sub' = 0
    /\ UNCHANGED <<fgVars, hatVars, audioVars, detVars, uiVars, cs, cam_max, n_cmd,
                   stateVars, envVars, mainVars, callVars, trigVars>>

\* 578-584 with _key3 677-679: KEY3 on the STORAGE page resets the counter.
HatKey3Storage ==
    /\ HatRunning
    /\ page = PAGE_STORAGE
    /\ clip_number' = 1
    /\ UNCHANGED <<fgVars, periVars, recording, ffmpeg_proc, rec_start, record_trigger,
                   envVars, mainVars, page, callVars, trigVars>>

GuiSteps ==
    \/ GuiTop \/ GuiReadTrigger \/ GuiClearToggle \/ GuiKey
    \/ GuiQuit \/ GuiClose

HatSteps ==
    \/ HatKey1 \/ HatJoyLeft \/ HatJoyRight \/ HatKey3Storage

InitGui ==
    /\ StateInit
    /\ FgInit
    /\ PeriInit
    /\ cap_open = TRUE
    /\ nspawn = 0
    /\ alive = {}
    /\ files = {}
    /\ pc = "g_top"
    /\ ret = "g_top"
    /\ result = FALSE
    /\ target = 0
    /\ fail_count = 0
    /\ last_frame = FALSE
    /\ page = PAGE_START
    /\ call_rec = FALSE
    /\ call_clip = 1
    /\ call_nspawn = 0
    /\ calls = <<>>
    /\ iter_async = FALSE
    /\ presses = 0
    /\ edges = 0
    /\ toggles = 0

NextGui ==
    \/ GuiSteps
    \/ StartSteps \/ StopSteps
    \/ EncoderExits
    \/ HatSteps
    \/ ProgramRestart

SpecGui == InitGui /\ [][NextGui]_vars

\* ------------------------------------------------------ FrameGrabber
recAll == <<stateVars, envVars, mainVars, page, callVars, trigVars, periVars>>
Frames == 1..MaxFrame

\* start() 285-293: clear the stop event, start the thread on _run.
FgStart ==
    /\ w_pc = "w_none"
    /\ fg_stop' = FALSE
    /\ w_pc' = "w_loop"
    /\ UNCHANGED <<recAll, fgObs, fg_lock, fg_frame, fg_ok, fg_fed, fg_late,
                   wcap_open, w_arg, f_pc, f_arg, gt_pc, got>>

\* stop() 338-341: set the stop event (the join gives up after 3 s).
FgStop ==
    /\ w_pc # "w_none"
    /\ ~fg_stop
    /\ fg_stop' = TRUE
    /\ UNCHANGED <<recAll, fgObs, fg_lock, fg_frame, fg_ok, fg_fed, fg_late,
                   wcap_open, w_pc, w_arg, f_pc, f_arg, gt_pc, got>>

\* stop() 340-341: join(timeout=3) returns, because the thread has ended or
\* because the 3 s have passed with the thread still running.
FgStopReturn ==
    /\ fg_stop
    /\ ~stop_ret
    /\ \/ w_pc = "w_done"
       \/ w_pc # "w_done"
    /\ stop_ret' = TRUE
    /\ UNCHANGED <<recAll, fed_in_time, open_failed, fg_lock, fg_frame, fg_ok,
                   fg_fed, fg_stop, fg_late, wcap_open, w_pc, w_arg, f_pc,
                   f_arg, gt_pc, got>>

\* The 15 s of _run's deadline (297) elapse.
FgDeadline ==
    /\ w_pc # "w_none"
    /\ ~fg_late
    /\ fg_late' = TRUE
    /\ UNCHANGED <<recAll, fgObs, fg_lock, fg_frame, fg_ok, fg_fed, fg_stop,
                   wcap_open, w_pc, w_arg, f_pc, f_arg, gt_pc, got>>

\* _run 298: while time.time() < deadline and not self._stop.is_set()
RunLoopTest ==
    /\ w_pc = "w_loop"
    /\ w_pc' = IF ~fg_late /\ ~fg_stop THEN "w_lock" ELSE "w_stopchk"
    /\ UNCHANGED <<recAll, fgObs, fg_lock, fg_frame, fg_ok, fg_fed, fg_stop,
                   fg_late, wcap_open, w_arg, f_pc, f_arg, gt_pc, got>>

\* _run 299: with self._lock (acquire).
RunAcquire ==
    /\ w_pc = "w_lock"
    /\ fg_lock = "free"
    /\ fg_lock' = "worker"
    /\ w_pc' = "w_fed"
    /\ UNCHANGED <<recAll, fgObs, fg_frame, fg_ok, fg_fed, fg_stop, fg_late,
                   wcap_open, w_arg, f_pc, f_arg, gt_pc, got>>

\* _run 300: if self._fed, inside the with block: when fed the thread goes
\* on to the idle loop of 302-303 with the lock still held; when not fed the
\* with block ends (release) and the thread sleeps (305).
RunTestFed ==
    /\ w_pc = "w_fed"
    /\ IF fg_fed
         THEN /\ w_pc' = "w_idle"
              /\ UNCHANGED fg_lock
         ELSE /\ w_pc' = "w_sleep"
              /\ fg_lock' = "free"
    /\ UNCHANGED <<recAll, fgObs, fg_frame, fg_ok, fg_fed, fg_stop, fg_late,
                   wcap_open, w_arg, f_pc, f_arg, gt_pc, got>>

\* _run 302 and 304: while not self._stop.is_set(); on stop, return, which
\* leaves the with block and releases the lock.
RunIdleTest ==
    /\ w_pc = "w_idle"
    /\ IF fg_stop
         THEN /\ w_pc' = "w_done"
              /\ fg_lock' = "free"
         ELSE /\ w_pc' = "w_idle_sleep"
              /\ UNCHANGED fg_lock
    /\ UNCHANGED <<recAll, fgObs, fg_frame, fg_ok, fg_fed, fg_stop, fg_late,
                   wcap_open, w_arg, f_pc, f_arg, gt_pc, got>>

\* _run 303: time.sleep(0.1) inside the idle loop.
RunIdleSleep ==
    /\ w_pc = "w_idle_sleep"
    /\ w_pc' = "w_idle"
    /\ UNCHANGED <<recAll, fgObs, fg_lock, fg_frame, fg_ok, fg_fed, fg_stop,
                   fg_late, wcap_open, w_arg, f_pc, f_arg, gt_pc, got>>

\* _run 305: time.sleep(0.1) of the waiting loop.
RunWaitSleep ==
    /\ w_pc = "w_sleep"
    /\ w_pc' = "w_loop"
    /\ UNCHANGED <<recAll, fgObs, fg_lock, fg_frame, fg_ok, fg_fed, fg_stop,
                   fg_late, wcap_open, w_arg, f_pc, f_arg, gt_pc, got>>

\* _run 307-308: if self._stop.is_set(): return
RunStopTest ==
    /\ w_pc = "w_stopchk"
    /\ w_pc' = IF fg_stop THEN "w_done" ELSE "w_open"
    /\ UNCHANGED <<recAll, fgObs, fg_lock, fg_frame, fg_ok, fg_fed, fg_stop,
                   fg_late, wcap_open, w_arg, f_pc, f_arg, gt_pc, got>>

\* Variant of RunOpenCamera that goes on to the pull loop after a failed open.
RunOpenCamera_NoReturn ==
    /\ w_pc = "w_open"
    /\ \/ /\ wcap_open' = TRUE
          /\ w_pc' = "w_pull"
          /\ UNCHANGED open_failed
       \/ /\ wcap_open' = FALSE
          /\ w_pc' = "w_pull"
          /\ open_failed' = TRUE
    /\ UNCHANGED <<recAll, fed_in_time, stop_ret, fg_lock, fg_frame, fg_ok,
                   fg_fed, fg_stop, fg_late, w_arg, f_pc, f_arg, gt_pc, got>>

\* _run 311-321: open the camera; when it cannot be opened, release, return.
RunOpenCamera ==
    /\ w_pc = "w_open"
    /\ \/ /\ wcap_open' = TRUE
          /\ w_pc' = "w_pull"
          /\ UNCHANGED open_failed
       \/ /\ wcap_open' = FALSE
          /\ w_pc' = "w_done"
          /\ open_failed' = TRUE
    /\ UNCHANGED <<recAll, fed_in_time, stop_ret, fg_lock, fg_frame, fg_ok, fg_fed, fg_stop,
                   fg_late, w_arg, f_pc, f_arg, gt_pc, got>>

\* Variant of RunPullTest that ends the loop without cap.release().
RunPullTest_NoRelease ==
    /\ w_pc = "w_pull"
    /\ w_pc' = IF fg_stop THEN "w_done" ELSE "w_read"
    /\ UNCHANGED <<recAll, fgObs, fg_lock, fg_frame, fg_ok, fg_fed, fg_stop,
                   fg_late, wcap_open, w_arg, f_pc, f_arg, gt_pc, got>>

\* _run 322 and 328: while not self._stop.is_set(); after it cap.release().
RunPullTest ==
    /\ w_pc = "w_pull"
    /\ IF fg_stop
         THEN /\ wcap_open' = FALSE
              /\ w_pc' = "w_done"
         ELSE /\ w_pc' = "w_read"
              /\ UNCHANGED wcap_open
    /\ UNCHANGED <<recAll, fgObs, fg_lock, fg_frame, fg_ok, fg_fed, fg_stop,
                   fg_late, w_arg, f_pc, f_arg, gt_pc, got>>

\* _run 323-327: cap.read(); a frame goes to feed_frame (265-277: the
\* conversion either gives an image or raises and the frame is dropped); a
\* failed read backs off and retries.
RunRead ==
    /\ w_pc = "w_read"
    /\ \/ \E x \in Frames : w_arg' = x /\ w_pc' = "w_f_lock"
       \/ w_pc' = "w_pull" /\ UNCHANGED w_arg
    /\ UNCHANGED <<recAll, fgObs, fg_lock, fg_frame, fg_ok, fg_fed, fg_stop,
                   fg_late, wcap_open, f_pc, f_arg, gt_pc, got>>

\* feed_frame 278 called from _run: with self._lock (acquire).
RunFeedAcquire ==
    /\ w_pc = "w_f_lock"
    /\ fg_lock = "free"
    /\ fg_lock' = "worker"
    /\ w_pc' = "w_f_store"
    /\ UNCHANGED <<recAll, fgObs, fg_frame, fg_ok, fg_fed, fg_stop, fg_late,
                   wcap_open, w_arg, f_pc, f_arg, gt_pc, got>>

\* feed_frame 279-281 called from _run: store, then release.
RunFeedStore ==
    /\ w_pc = "w_f_store"
    /\ fg_frame' = w_arg
    /\ fg_ok' = TRUE
    /\ fg_fed' = TRUE
    /\ fg_lock' = "free"
    /\ w_pc' = "w_pull"
    /\ UNCHANGED <<recAll, fgObs, fg_stop, fg_late, wcap_open, w_arg, f_pc, f_arg,
                   gt_pc, got>>

\* run_gui 822-823: the GUI loop calls feed_frame(frame); a None frame
\* (f_arg = 0) can be passed as well.
FeedCall ==
    /\ f_pc = "f_idle"
    /\ \E x \in 0..MaxFrame : f_arg' = x
    /\ f_pc' = "f_conv"
    /\ UNCHANGED <<recAll, fgObs, fg_lock, fg_frame, fg_ok, fg_fed, fg_stop,
                   fg_late, wcap_open, w_pc, w_arg, gt_pc, got>>

\* Variant of FeedConvert in which a failed conversion empties the slot.
FeedConvert_ClearsSlot ==
    /\ f_pc = "f_conv"
    /\ \/ /\ f_arg # 0
          /\ f_pc' = "f_lock"
          /\ UNCHANGED <<fg_frame, fg_ok>>
       \/ /\ f_pc' = "f_idle"
          /\ fg_frame' = 0
          /\ fg_ok' = FALSE
    /\ UNCHANGED <<recAll, fgObs, fg_lock, fg_fed, fg_stop,
                   fg_late, wcap_open, w_pc, w_arg, f_arg, gt_pc, got>>

\* feed_frame 267-277, 282-283: None returns at once; the conversion gives
\* the 128x128 image or raises, and the exception is swallowed.
FeedConvert ==
    /\ f_pc = "f_conv"
    /\ \/ /\ f_arg # 0
          /\ f_pc' = "f_lock"
       \/ f_pc' = "f_idle"
    /\ UNCHANGED <<recAll, fgObs, fg_lock, fg_frame, fg_ok, fg_fed, fg_stop,
                   fg_late, wcap_open, w_pc, w_arg, f_arg, gt_pc, got>>

\* feed_frame 278: with self._lock (acquire).
FeedAcquire ==
    /\ f_pc = "f_lock"
    /\ fg_lock = "free"
    /\ fg_lock' = "feeder"
    /\ f_pc' = "f_store_frame"
    /\ UNCHANGED <<recAll, fgObs, fg_frame, fg_ok, fg_fed, fg_stop, fg_late,
                   wcap_open, w_pc, w_arg, f_arg, gt_pc, got>>

\* feed_frame 279: self._frame = pil
FeedStoreFrame ==
    /\ f_pc = "f_store_frame"
    /\ fg_frame' = f_arg
    /\ f_pc' = "f_store_ok"
    /\ UNCHANGED <<recAll, fgObs, fg_lock, fg_ok, fg_fed, fg_stop, fg_late,
                   wcap_open, w_pc, w_arg, f_arg, gt_pc, got>>

\* Variant of FeedStoreOk that leaves _ok as it is.
FeedStoreOk_Skipped ==
    /\ f_pc = "f_store_ok"
    /\ f_pc' = "f_store_fed"
    /\ UNCHANGED <<recAll, fgObs, fg_lock, fg_frame, fg_ok, fg_fed, fg_stop,
                   fg_late, wcap_open, w_pc, w_arg, f_arg, gt_pc, got>>

\* feed_frame 280: self._ok = True
FeedStoreOk ==
    /\ f_pc = "f_store_ok"
    /\ fg_ok' = TRUE
    /\ f_pc' = "f_store_fed"
    /\ UNCHANGED <<recAll, fgObs, fg_lock, fg_frame, fg_fed, fg_stop, fg_late,
                   wcap_open, w_pc, w_arg, f_arg, gt_pc, got>>

\* feed_frame 281: self._fed = True, end of the with block (release).
FeedStoreFed ==
    /\ f_pc = "f_store_fed"
    /\ fg_fed' = TRUE
    /\ fed_in_time' = (fed_in_time \/ ~fg_late)
    /\ fg_lock' = "free"
    /\ f_pc' = "f_idle"
    /\ UNCHANGED <<recAll, open_failed, stop_ret, fg_frame, fg_ok, fg_stop, fg_late, wcap_open,
                   w_pc, w_arg, f_arg, gt_pc, got>>

\* HatUI._render_live 794 / thumbnail 905: the render thread calls get().
GetCall ==
    /\ gt_pc = "gt_idle"
    /\ gt_pc' = "gt_lock"
    /\ UNCHANGED <<recAll, fgObs, fg_lock, fg_frame, fg_ok, fg_fed, fg_stop,
                   fg_late, wcap_open, w_pc, w_arg, f_pc, f_arg, got>>

\* get 331: with self._lock (acquire).
GetAcquire ==
    /\ gt_pc = "gt_lock"
    /\ fg_lock = "free"
    /\ fg_lock' = "getter"
    /\ gt_pc' = "gt_copy"
    /\ UNCHANGED <<recAll, fgObs, fg_frame, fg_ok, fg_fed, fg_stop, fg_late,
                   wcap_open, w_pc, w_arg, f_pc, f_arg, got>>

\* get 332: copy of the stored frame, or of the placeholder; release.
GetCopy ==
    /\ gt_pc = "gt_copy"
    /\ got' = fg_frame
    /\ fg_lock' = "free"
    /\ gt_pc' = "gt_idle"
    /\ UNCHANGED <<recAll, fgObs, fg_frame, fg_ok, fg_fed, fg_stop, fg_late,
                   wcap_open, w_pc, w_arg, f_pc, f_arg>>

RunSteps ==
    \/ RunLoopTest \/ RunAcquire \/ RunTestFed \/ RunIdleTest
    \/ RunIdleSleep \/ RunWaitSleep \/ RunStopTest \/ RunOpenCamera
    \/ RunPullTest \/ RunRead \/ RunFeedAcquire \/ RunFeedStore

FeedSteps ==
    \/ FeedCall \/ FeedConvert \/ FeedAcquire \/ FeedStoreFrame
    \/ FeedStoreOk \/ FeedStoreFed

GetSteps == GetCall \/ GetAcquire \/ GetCopy

NextFG ==
    \/ FgStart \/ FgStop \/ FgStopReturn \/ FgDeadline
    \/ RunSteps \/ FeedSteps \/ GetSteps

SpecFG == Init /\ [][NextFG]_vars

\* Threads run on: the FrameGrabber thread takes its next step and gets the
\* lock when it is free again and again; a feed_frame or get that holds the
\* lock finishes.
SpecFGFair ==
    /\ SpecFG
    /\ WF_vars(RunSteps)
    /\ SF_vars(RunAcquire \/ RunFeedAcquire)
    /\ WF_vars(FeedStoreFrame \/ FeedStoreOk \/ FeedStoreFed)
    /\ WF_vars(GetCopy)

\* ================================================================ claims

\* C1: at most one of {GUI preview reader with the device open, live encoder
\* subprocess} holds the camera device, in every reachable state.
C1_ExclusiveDevice == ~(cap_open /\ alive # {})

\* C2: every stop_recording call made while recording ends (by returning or
\* by raising) with state.recording = false and state.ffmpeg_proc = None.
C2_StopEndsIdle ==
    (pc \in {"sp_ret", "sp_raise"} /\ call_rec)
        => (~recording /\ ffmpeg_proc = 0)

\* C3: every stop_recording call made while recording, with the preview
\* handle supplied, has reopened the preview device when it ends.
C3_ReclaimUnconditional ==
    (pc \in {"sp_ret", "sp_raise"} /\ call_rec) => cap_open

\* C6: in every state any thread can observe, state.ffmpeg_proc is non-null
\* if and only if state.recording is true.
C6_HandleIffRecording == (ffmpeg_proc # 0) <=> recording

\* C7: a start_recording call made while recording returns False and spawns
\* nothing, and at most one spawned encoder subprocess is alive at any time.
C7_SingleEncoder ==
    /\ (pc = "st_ret" /\ call_rec) => (~result /\ nspawn = call_nspawn)
    /\ Cardinality(alive) <= 1

\* C10: clip_number is one more than at the call when a stop_recording call
\* made while recording ends, and is as it was at the call when a stop made
\* while not recording, a rejected start or a failed start ends.
C10_ClipPlusOnePerStop ==
    /\ (pc \in {"sp_ret", "sp_raise"})
          => clip_number = call_clip + (IF call_rec THEN 1 ELSE 0)
    /\ (pc = "st_ret" /\ ~result) => clip_number = call_clip

\* C8 (as claimed): every KEY1 press leads to exactly one toggle: the presses
\* are the toggles done plus the one still pending in the flag.
C8_EveryPressToggles ==
    presses = toggles + (IF record_trigger THEN 1 ELSE 0)

\* C8 (amended): every false -> true edge of record_trigger leads to exactly
\* one toggle by the GUI loop; a press made while the flag is still set is
\* merged into that edge.
C8_EveryEdgeToggles ==
    edges = toggles + (IF record_trigger THEN 1 ELSE 0)

\* C8 witness: two presses were merged into one edge and the GUI loop has
\* cleared the flag and finished the toggle it led to.
C8_Witness ==
    /\ presses = 2 /\ edges = 1 /\ toggles = 1
    /\ ~record_trigger
    /\ pc = "g_key"

\* C9: the clip number start_recording puts in the output path is not the
\* number of a clip already present in the output directory.
C9_NoClipCollision ==
    (pc \in {"st_release", "st_spawn"}) => target \notin files

\* Positions at which a thread holding the slot lock is inside one slot
\* write (feed_frame 279-281) or one slot copy (get 332).
InSlotAccess ==
    \/ fg_lock = "feeder" /\ f_pc \in {"f_store_frame", "f_store_ok", "f_store_fed"}
    \/ fg_lock = "getter" /\ gt_pc = "gt_copy"
    \/ fg_lock = "worker" /\ w_pc \in {"w_fed", "w_f_store"}

\* C4: get() never blocks: while stop() has not been called, a get() that
\* is at the lock finds it free or held for one slot write or copy only.
C4_GetNeverBlocks ==
    (gt_pc = "gt_lock" /\ ~fg_stop) => (fg_lock = "free" \/ InSlotAccess)

\* C5: feed_frame() is never blocked: a feed_frame() at the lock finds it
\* free or held for one slot write or copy only, and the lock is never held
\* across a sleep.
C5_FeedNeverBlocked ==
    /\ (f_pc = "f_lock" /\ ~fg_stop) => (fg_lock = "free" \/ InSlotAccess)
    /\ fg_lock = "worker" => w_pc \notin {"w_idle", "w_idle_sleep", "w_sleep"}

\* Positions of the foreground thread inside start_recording / stop_recording.
StartPcs == {"st_check", "st_mkdir", "st_release", "st_spawn", "st_verify",
             "st_set_rec", "st_set_start", "st_ret"}
StopPcs == {"sp_check", "sp_write", "sp_wait", "sp_kill_timeout",
            "sp_wait_killed", "sp_kill_generic", "sp_clear_rec",
            "sp_clear_start", "sp_inc_clip", "sp_clear_proc", "sp_reopen",
            "sp_ret", "sp_raise"}

\* C11: while the process runs, no step of the program (GUI loop, start,
\* stop, any HAT input on any page) decreases clip_number.
C11_ClipMonotonic ==
    [][pc \notin {"exited", "crashed"} => clip_number' >= clip_number]_vars

\* C12: when the stop_recording call that run_gui makes on finding the
\* encoder dead (782-784) returns, clip_number is what it was at the call.
C12_AsyncDeathKeepsClip ==
    (pc = "sp_ret" /\ ret = "g_trig") => clip_number = call_clip

\* C13: a stop_recording call made while not recording only returns: it
\* makes no call on a subprocess, does not reopen the preview device and
\* leaves recording, ffmpeg_proc, rec_start and clip_number as they are.
C13_StopNotRecordingNoOp ==
    [][(pc \in StopPcs /\ ~call_rec) =>
          /\ pc' \in {pc, "sp_ret", ret}
          /\ calls' = <<>>
          /\ UNCHANGED <<recording, ffmpeg_proc, rec_start, clip_number,
                         cap_open>>]_vars

\* C13 witness: a stop_recording call made while not recording, with a
\* subprocess handle left in the state, has reached its return.
C13_Witness == pc = "sp_ret" /\ ~call_rec /\ ffmpeg_proc # 0

\* C14: when a start_recording call made while not recording returns False,
\* recording is false, ffmpeg_proc is None and rec_start is None.
C14_FailedStartClean ==
    (pc = "st_ret" /\ ~call_rec /\ ~result)
        => (~recording /\ ffmpeg_proc = 0 /\ ~rec_start)

\* The escalation ladder of a stop whose bounded wait timed out.
Ladder == <<"write", "wait10_timeout", "kill", "wait">>
TimedOut == \E i \in 1..Len(calls) : calls[i] = "wait10_timeout"
PipeBroke == \E i \in 1..Len(calls) : calls[i] = "write_pipe"
WaitedBounded ==
    \E i \in 1..Len(calls) : calls[i] \in {"wait10", "wait10_timeout", "wait10_err"}
CleanupPcs == {"sp_clear_rec", "sp_clear_start", "sp_inc_clip",
               "sp_clear_proc", "sp_reopen", "sp_ret"}

\* C15: stop_recording on a running encoder has written the quit byte
\* before it waits with the bound; a kill() after a timed-out wait comes
\* after exactly that write and that wait; and the Idle cleanup of a stop
\* whose bounded wait timed out comes after exactly one kill() followed by
\* the wait() without a bound.
C15_StopEscalationOrder ==
    /\ (pc = "sp_wait") => calls = <<"write">>
    /\ (pc = "sp_kill_timeout") => calls = <<"write", "wait10_timeout">>
    /\ (pc = "sp_wait_killed") => calls = <<"write", "wait10_timeout", "kill">>
    /\ (TimedOut /\ pc \in CleanupPcs) => calls = Ladder

\* C15 witness: the cleanup begins after the whole ladder has been run.
C15_Witness == pc = "sp_clear_rec" /\ call_rec /\ calls = Ladder

\* C16: a stop_recording whose quit write met a broken pipe has made the
\* bounded wait by the time it is in the Idle cleanup and the reopen.
C16_BrokenPipeStillWaits ==
    (PipeBroke /\ pc \in CleanupPcs) => WaitedBounded

\* C17: whenever the encoder has exited on its own while state.recording
\* is true, the loop that owns the session brings the state to Idle
\* (recording false, handle None) without any key press being needed.
C17_AsyncFailureDetected ==
    (recording /\ ffmpeg_proc # 0 /\ ffmpeg_proc \notin alive)
        ~> (~recording /\ ffmpeg_proc = 0)

\* C18: a run_gui iteration that found the encoder dead and stopped ends
\* Idle with no encoder handle, whatever stop request (record_trigger, R)
\* it met on its way.
C18_AsyncAbsorbsStop ==
    (iter_async /\ pc = "g_top") => (~recording /\ ffmpeg_proc = 0)

\* C19: every stop_recording call made while recording with a handle
\* comes to its return with the system Idle (recording false, handle None).
C19_StopConverges ==
    (pc = "sp_check" /\ recording /\ ffmpeg_proc # 0)
        ~> (pc = "sp_ret" /\ ~recording /\ ffmpeg_proc = 0)

\* C20: once feed_frame has succeeded before the deadline of _run, the
\* FrameGrabber thread never comes to open a camera itself.
C20_PassiveOnceFed == fed_in_time => w_pc # "w_open"

\* Positions of the FrameGrabber thread in the waiting loop (298-305) and
\* in the pull loop (322-327).
WaitPcs == {"w_loop", "w_lock", "w_fed", "w_sleep"}
PullPcs == {"w_pull", "w_read", "w_f_lock", "w_f_store"}

\* C21 (as claimed): once stop() has returned, no camera handle opened by
\* the FrameGrabber is open.
C21_NoHandleAfterStop == stop_ret => ~wcap_open

\* C21 (amended): when the deadline has passed unfed the thread comes to
\* open the camera unless stop() is called or a feed is seen first; the
\* handle it opened is open only inside the pull loop; and once stop() has
\* been called the pull loop ends and the handle is released, possibly
\* after stop() has returned.
C21_PullLoopReleases ==
    /\ [](wcap_open => w_pc \in PullPcs)
    /\ ((fg_late /\ ~fg_fed /\ w_pc \in WaitPcs)
            ~> (w_pc = "w_open" \/ fg_stop \/ fg_fed))
    /\ (fg_stop ~> (~wcap_open /\ w_pc \notin PullPcs))

\* C21 witness: the thread has pulled a frame with its own camera, stop()
\* has been called and has returned, the loop has ended, the handle is
\* released.
C21_Witness ==
    w_pc = "w_done" /\ w_arg # 0 /\ fg_stop /\ stop_ret /\ ~wcap_open

\* C22 (as claimed): once the camera could not be opened in pull mode,
\* ready is false.
C22_ReadyStaysFalse == open_failed => ~fg_ok

\* C22 (amended): once the camera could not be opened in pull mode the
\* FrameGrabber thread has ended, holds no handle and stores nothing: ready
\* and the slot change only through a feed_frame() call made from outside.
C22_OnlyExternalFeedAfterOpenFailure ==
    [][open_failed =>
          /\ w_pc' = "w_done" /\ ~wcap_open'
          /\ (fg_ok' # fg_ok => f_pc = "f_store_ok")
          /\ (fg_frame' # fg_frame => f_pc = "f_store_frame")]_vars

\* C22 witness: the open has failed, nothing was fed, and a get() made
\* since has returned the placeholder.
C22_Witness ==
    open_failed /\ ~fg_ok /\ fg_frame = 0 /\ gt_pc = "gt_idle" /\ got = 0
        /\ w_pc = "w_done" /\ stop_ret

\* C23: a feed_frame() call given None, or a frame whose conversion fails,
\* returns without touching the slot, _ok, _fed or the lock.
C23_DroppedFeedChangesNothing ==
    [][(f_pc = "f_conv" /\ f_pc' = "f_idle")
          => UNCHANGED <<fg_frame, fg_ok, fg_fed, fg_lock>>]_vars

\* C23 witness: a frame was stored, a later feed_frame() was dropped, and
\* get() has returned the frame stored before.
C23_Witness ==
    /\ f_pc = "f_idle" /\ f_arg # fg_frame
    /\ fg_frame # 0 /\ fg_ok /\ got = fg_frame
    /\ w_pc = "w_none"

PollPeriods == {10, 67, 100}

\* get_events 369-370, 371-372: the line went from released to pressed and
\* the debounce test passes.
AcceptPress(pin, lv, now) ==
    /\ lv[pin]
    /\ h_last[pin]
    /\ now - h_etime[pin] > DEBOUNCE_MS

\* get_events 375-378: the line is still pressed, is in repeat_pins, and
\* both the hold delay and the repeat interval have passed.
EmitRepeat(pin, lv, now) ==
    /\ lv[pin]
    /\ ~h_last[pin]
    /\ pin \in repeat_pins
    /\ now - h_ptime[pin] > HOLD_DELAY_MS
    /\ now - h_rtime[pin] > HOLD_REPEAT_MS

\* get_events 366, 373, 379: events.append in the order of the lines given.
RECURSIVE EventsOf(_, _, _)
EventsOf(order, acc, rpt) ==
    IF order = <<>> THEN <<>>
    ELSE LET pin == Head(order)
             ev  == IF pin \in acc THEN << <<pin, "press">> >>
                    ELSE IF pin \in rpt THEN << <<pin, "repeat">> >>
                    ELSE <<>>
         IN ev \o EventsOf(Tail(order), acc, rpt)

\* The assignments of one get_events call (374, 380, 381, 382) at time now
\* with line levels lv (TRUE = GPIO.LOW = pressed), given the lines whose
\* press was accepted, the lines that repeat, and the list returned.
Polled(lv, now, acc, rpt, evs) ==
    /\ h_now' = now
    /\ h_polls' = h_polls + 1
    /\ h_events' = evs
    /\ h_ptime' = [p \in PinSet |-> IF p \in acc THEN now ELSE h_ptime[p]]
    /\ h_etime' = [p \in PinSet |-> IF p \in acc THEN now ELSE h_etime[p]]
    /\ h_rtime' = [p \in PinSet |->
                     IF p \in acc \/ p \in rpt THEN now ELSE h_rtime[p]]
    /\ h_last' = [p \in PinSet |-> ~lv[p]]
    /\ h_npress' = [p \in PinSet |->
                      IF p \in acc THEN h_npress[p] + 1 ELSE h_npress[p]]
    /\ h_obs' = [p \in PinSet |->
                   IF lv[p] /\ h_last[p] THEN Append(h_obs[p], now)
                   ELSE h_obs[p]]
    /\ h_nrep' = [p \in PinSet |->
                    IF p \in acc THEN 0
                    ELSE IF p \in rpt THEN h_nrep[p] + 1 ELSE h_nrep[p]]
    /\ h_down' = [p \in PinSet |->
                    IF ~lv[p] THEN 0
                    ELSE IF h_last[p] THEN now ELSE h_down[p]]

\* The time of a get_events call: the first call fixes the polling period.
PollTimes == IF h_dt = 0 THEN {h_now + d : d \in PollPeriods} ELSE {h_now + h_dt}

\* Variant of GetEvents without the debounce test of 371.
GetEvents_NoDebounce ==
    /\ h_polls < MaxPoll
    /\ \E now \in PollTimes, lv \in [PinSet -> BOOLEAN] :
          LET acc == {p \in PinSet : lv[p] /\ h_last[p]}
              rpt == {p \in PinSet : EmitRepeat(p, lv, now)}
          IN /\ Polled(lv, now, acc, rpt, EventsOf(ALL_INPUT_PINS, acc, rpt))
             /\ h_dt' = now - h_now
    /\ UNCHANGED <<stateVars, envVars, mainVars, page, callVars, trigVars,
                   fgVars, audioVars, auxVars>>

\* Variant of GetEvents in which every held line repeats.
GetEvents_RepeatAll ==
    /\ h_polls < MaxPoll
    /\ \E now \in PollTimes, lv \in [PinSet -> BOOLEAN] :
          LET acc == {p \in PinSet : AcceptPress(p, lv, now)}
              rpt == {p \in PinSet : /\ lv[p] /\ ~h_last[p]
                                     /\ now - h_ptime[p] > HOLD_DELAY_MS
                                     /\ now - h_rtime[p] > HOLD_REPEAT_MS}
          IN /\ Polled(lv, now, acc, rpt, EventsOf(ALL_INPUT_PINS, acc, rpt))
             /\ h_dt' = now - h_now
    /\ UNCHANGED <<stateVars, envVars, mainVars, page, callVars, trigVars,
                   fgVars, audioVars, auxVars>>

\* Variant of GetEvents that returns the events in the reverse line order.
GetEvents_Reversed ==
    /\ h_polls < MaxPoll
    /\ \E now \in PollTimes, lv \in [PinSet -> BOOLEAN] :
          LET acc == {p \in PinSet : AcceptPress(p, lv, now)}
              rpt == {p \in PinSet : EmitRepeat(p, lv, now)}
          IN /\ Polled(lv, now, acc, rpt,
                       EventsOf(<<PIN_JOY_UP, PIN_KEY1>>, acc, rpt))
             /\ h_dt' = now - h_now
    /\ UNCHANGED <<stateVars, envVars, mainVars, page, callVars, trigVars,
                   fgVars, audioVars, auxVars>>

\* HatInput.get_events 363-382, one call: now = time.time(), the level of
\* every line read once, in the order of ALL_INPUT_PINS.
GetEvents ==
    /\ h_polls < MaxPoll
    /\ \E now \in PollTimes, lv \in [PinSet -> BOOLEAN] :
          LET acc == {p \in PinSet : AcceptPress(p, lv, now)}
              rpt == {p \in PinSet : EmitRepeat(p, lv, now)}
          IN /\ Polled(lv, now, acc, rpt, EventsOf(ALL_INPUT_PINS, acc, rpt))
             /\ h_dt' = now - h_now
    /\ UNCHANGED <<stateVars, envVars, mainVars, page, callVars, trigVars,
                   fgVars, audioVars, auxVars>>

NextHat == GetEvents

SpecHat == Init /\ [][NextHat]_vars

\* The events of kind k in a list returned by get_events, as a set of lines.
LinesOf(evs, k) == {evs[i][1] : i \in {j \in 1..Len(evs) : evs[j][2] = k}}

\* C25: a step of get_events emits press for a line exactly when the line
\* is seen to go from released to pressed more than DEBOUNCE_MS after the
\* line's last press event, and then restarts the three times of the line;
\* so two press events of a line are more than DEBOUNCE_MS apart, and
\* a line seen to go down at t, t + 30 ms and t + 80 ms has given exactly two
\* press events.
C25_Debounce ==
    /\ [][h_polls' # h_polls =>
            \A p \in PinSet :
               /\ (p \in LinesOf(h_events', "press")
                     <=> (h_last[p] /\ ~h_last'[p]
                            /\ h_now' - h_etime[p] > DEBOUNCE_MS))
               /\ (p \in LinesOf(h_events', "press")
                     => /\ h_etime'[p] = h_now' /\ h_ptime'[p] = h_now'
                        /\ h_rtime'[p] = h_now'
                        /\ h_npress'[p] = h_npress[p] + 1)
               /\ (p \notin LinesOf(h_events', "press")
                     => /\ h_etime'[p] = h_etime[p]
                        /\ h_npress'[p] = h_npress[p])]_vars
    /\ [](\A p \in PinSet :
            (/\ Len(h_obs[p]) = 3
             /\ h_obs[p][2] = h_obs[p][1] + 30
             /\ h_obs[p][3] = h_obs[p][1] + 80) => h_npress[p] = 2)

\* C25 witness: KEY1 was seen to go down at t, t + 30 ms and t + 80 ms and
\* two press events were emitted for it.
C25_Witness ==
    /\ Len(h_obs[PIN_KEY1]) = 3
    /\ h_obs[PIN_KEY1][2] = h_obs[PIN_KEY1][1] + 30
    /\ h_obs[PIN_KEY1][3] = h_obs[PIN_KEY1][1] + 80
    /\ h_npress[PIN_KEY1] = 2
    /\ h_etime[PIN_KEY1] = h_obs[PIN_KEY1][3]

\* C26: while a repeat-enabled line is held since its press event, for longer
\* than HOLD_DELAY_MS, the repeat events emitted for it number
\* floor((D - HOLD_DELAY_MS) / HOLD_REPEAT_MS) for a hold duration D that
\* agrees with what the calls saw: at least the time since the press event,
\* and less than that plus two polling periods.
C26_RepeatCount ==
    \A p \in repeat_pins :
       (/\ h_down[p] # 0
        /\ h_down[p] = h_ptime[p]
        /\ h_now - h_down[p] > HOLD_DELAY_MS)
       => \E D \in (h_now - h_down[p])..(h_now - h_down[p] + 2 * h_dt - 1) :
             h_nrep[p] = (D - HOLD_DELAY_MS) \div HOLD_REPEAT_MS

\* C27: every event of a get_events call is a press or a repeat of a line
\* the call saw pressed, so a release gives no event; and an event of a
\* line that was already pressed at the call before is a repeat of a line
\* in repeat_pins.
C27_NoReleaseNoHoldEvents ==
    [][h_polls' # h_polls =>
         \A i \in 1..Len(h_events') :
            LET pin  == h_events'[i][1]
                kind == h_events'[i][2]
            IN /\ pin \in PinSet
               /\ kind \in {"press", "repeat"}
               /\ ~h_last'[pin]
               /\ (~h_last[pin] => (kind = "repeat" /\ pin \in repeat_pins))
               /\ (h_last[pin] => kind = "press")]_vars

\* C27 witness: KEY1 and JOY_UP were both held past the hold delay and the
\* last call gave one event only, the repeat of JOY_UP; and a call before
\* saw a line released.
C27_Witness ==
    /\ h_events = << <<PIN_JOY_UP, "repeat">> >>
    /\ h_down[PIN_KEY1] # 0
    /\ h_now - h_down[PIN_KEY1] > HOLD_DELAY_MS
    /\ h_now - h_rtime[PIN_KEY1] > HOLD_REPEAT_MS

\* The position of a line in ALL_INPUT_PINS.
PinIndex(p) == CHOOSE i \in 1..Len(ALL_INPUT_PINS) : ALL_INPUT_PINS[i] = p

\* C28: the list returned by a get_events call is in the order of
\* ALL_INPUT_PINS, has at most one event per line, and holds every press
\* and every repeat accepted in that call.
C28_OrderedComplete ==
    [][h_polls' # h_polls =>
         /\ \A i, j \in 1..Len(h_events') :
               i < j => PinIndex(h_events'[i][1]) < PinIndex(h_events'[j][1])
         /\ \A p \in PinSet :
               /\ (h_etime'[p] # h_etime[p]
                     => p \in LinesOf(h_events', "press"))
               /\ (h_rtime'[p] # h_rtime[p]
                     => p \in LinesOf(h_events', "press")
                               \cup LinesOf(h_events', "repeat"))]_vars

\* C28 witness: KEY1 and JOY_UP went down between two calls and the call
\* returned both press events, KEY1 first.
C28_Witness ==
    h_events = << <<PIN_KEY1, "press">>, <<PIN_JOY_UP, "press">> >>

\* ---------------------------------------------------------- AudioMeter
\* state.audio_peaks[ch] *= AUDIO_METER_DECAY (520), on amplitudes counted
\* in steps of 1/MaxLevel and rounded down.
Decayed(peak) == (peak * AUDIO_METER_DECAY_PCT) \div 100

\* AudioMeter.start 486-494: returns at once when sounddevice or a meter
\* device is missing, else clears _stop and starts the thread.
MeterStart ==
    /\ a_pc = "a_none"
    /\ \/ /\ a_pc' = "a_off"
          /\ UNCHANGED a_stop
       \/ /\ a_pc' = "a_open"
          /\ a_stop' = FALSE
    /\ UNCHANGED <<stateVars, envVars, mainVars, page, callVars, trigVars,
                   fgVars, hatVars, auxVars, a_nch, audio_levels, audio_peaks>>

\* AudioMeter.stop 496-497.
MeterStop ==
    /\ a_pc # "a_none"
    /\ ~a_stop
    /\ a_stop' = TRUE
    /\ UNCHANGED <<stateVars, envVars, mainVars, page, callVars, trigVars,
                   fgVars, hatVars, auxVars, a_pc, a_nch, audio_levels, audio_peaks>>

\* _run 501-509: the stream opens with min(AUDIO_CHANNELS, max_input_channels)
\* channels, or sd.InputStream / sd.query_devices raises.
MeterOpen ==
    /\ a_pc = "a_open"
    /\ \/ /\ \E n \in 1..AUDIO_CHANNELS : a_nch' = n
          /\ a_pc' = "a_loop"
       \/ /\ a_pc' = "a_err"
          /\ UNCHANGED a_nch
    /\ UNCHANGED <<stateVars, envVars, mainVars, page, callVars, trigVars,
                   fgVars, hatVars, auxVars, a_stop, audio_levels, audio_peaks>>

\* _run 510: while not self._stop.is_set()
MeterLoopTest ==
    /\ a_pc = "a_loop"
    /\ a_pc' = IF a_stop THEN "a_done" ELSE "a_read"
    /\ UNCHANGED <<stateVars, envVars, mainVars, page, callVars, trigVars,
                   fgVars, hatVars, auxVars, a_stop, a_nch, audio_levels, audio_peaks>>

\* _run 511-520: one block read; for every channel of the block the RMS
\* goes to audio_levels, and the peak becomes the RMS when the RMS is above
\* it, else decays.
MeterBlock ==
    /\ a_pc = "a_read"
    /\ \E rms \in [0..(a_nch - 1) -> Levels] :
          /\ audio_levels' = [ch \in Channels |->
                IF ch < a_nch THEN rms[ch] ELSE audio_levels[ch]]
          /\ audio_peaks' = [ch \in Channels |->
                IF ch >= a_nch THEN audio_peaks[ch]
                ELSE IF rms[ch] > audio_peaks[ch] THEN rms[ch]
                ELSE Decayed(audio_peaks[ch])]
    /\ a_pc' = "a_loop"
    /\ UNCHANGED <<stateVars, envVars, mainVars, page, callVars, trigVars,
                   fgVars, hatVars, auxVars, a_stop, a_nch>>

\* _run 511, 521-522: stream.read raises; the handler prints and the thread
\* ends.
MeterError ==
    /\ a_pc = "a_read"
    /\ a_pc' = "a_err"
    /\ UNCHANGED <<stateVars, envVars, mainVars, page, callVars, trigVars,
                   fgVars, hatVars, auxVars, a_stop, a_nch, audio_levels, audio_peaks>>

NextAudio ==
    \/ MeterStart \/ MeterStop \/ MeterOpen \/ MeterLoopTest
    \/ MeterBlock \/ MeterError

SpecAudio == Init /\ [][NextAudio]_vars

\* C29: after every update the peak of a channel is at least its level.
C29_PeakAtLeastLevel ==
    \A ch \in Channels : audio_peaks[ch] >= audio_levels[ch]

\* C30: after the meter loop has ended on an error the published audio
\* levels are zero.
C30_ZeroAfterError ==
    a_pc = "a_err" => \A ch \in Channels : audio_levels[ch] = 0

\* C32: a start_recording call made while recording is set (a recording
\* runs, or a stop has been left unfinished) only returns False: the preview
\* device is not released, no output path is prepared, no subprocess is
\* spawned and no field of the state changes.
C32_StartWhileRecordingRejected ==
    [][(pc \in StartPcs /\ call_rec) =>
          /\ pc' \in {pc, "st_ret", ret}
          /\ (pc' = "st_ret" => result' = FALSE)
          /\ UNCHANGED <<stateVars, cap_open, nspawn, files, target>>]_vars

\* C32 witness: a start_recording call made while the encoder runs has
\* reached its return with False.
C32_Witness ==
    /\ pc = "st_ret" /\ call_rec /\ result = FALSE
    /\ recording /\ ffmpeg_proc \in alive /\ nspawn = call_nspawn

\* C36: when a start_recording call that was not rejected returns False,
\* the preview device is open.
C36_FailedStartReopensPreview ==
    (pc = "st_ret" /\ ~call_rec /\ result = FALSE) => cap_open

\* C35: the FrameGrabber thread holds no camera handle of its own while
\* the GUI preview reader or an encoder subprocess holds the device.
C35_GrabberNeverOpensHeldDevice ==
    wcap_open => (~cap_open /\ alive = {})

\* The shortest and the longest of PollPeriods.
GapPeriods == {10, 100}

\* get_events called at uneven times: each call comes one of GapPeriods
\* after the call before (HatUI._run sleeps what is left of INTERVAL after
\* a render of varying length, 765).
GetEventsAnyGap ==
    /\ h_polls < MaxGapPoll
    /\ \E d \in GapPeriods, lv \in [PinSet -> BOOLEAN] :
          LET now == h_now + d
              acc == {p \in PinSet : AcceptPress(p, lv, now)}
              rpt == {p \in PinSet : EmitRepeat(p, lv, now)}
          IN /\ Polled(lv, now, acc, rpt, EventsOf(ALL_INPUT_PINS, acc, rpt))
             /\ h_dt' = d
    /\ UNCHANGED <<stateVars, envVars, mainVars, page, callVars, trigVars,
                   fgVars, audioVars, auxVars>>

NextHatGaps == GetEventsAnyGap

SpecHatGaps == Init /\ [][NextHatGaps]_vars

\* C37: every repeat event of a call belongs to a hold that began with a
\* press event: the line was first seen down at the time of its last
\* accepted press.
C37_RepeatOnlyAfterAcceptedPress ==
    \A p \in LinesOf(h_events, "repeat") :
       h_down[p] # 0 /\ h_down[p] = h_ptime[p]

\* ------------------------------------------------ detect_audio_device
\* A line of the listing: whether it contains one of OBSBOT_USB_NAMES, and
\* the number int() parses after "card" (-1: the parse raises, 443-444).
ListingLines == [match : BOOLEAN, card : -1..MaxCard]
Listings == UNION {[1..n -> ListingLines] : n \in 0..MaxLines}

\* The sounddevice probe: module missing (SD_OK False), query_devices
\* raises, an input device matches at index idx, or none matches and
\* sd.default.device[0] is idx.
SdProbes ==
    {[kind |-> "no_module", idx |-> -1], [kind |-> "raises", idx |-> -1]}
    \cup [kind : {"match", "default"}, idx : 0..MaxCard]

\* run_gui 736 / run_headless 1347 call detect_audio_device(state) on the
\* machine as it is: tool installed or not, any listing, any probe.
DetectCall ==
    /\ d_pc = "d_none"
    /\ \E t \in BOOLEAN, out \in Listings, sd \in SdProbes :
          /\ d_tool' = t
          /\ d_rest' = out
          /\ d_sd' = sd
    /\ d_pc' = "d_run"
    /\ UNCHANGED <<alsa_card, audio_device, audio_enabled, audio_device_sd>>
    /\ UNCHANGED <<stateVars, envVars, mainVars, page, callVars, trigVars,
                   fgVars, hatVars, audioVars, uiVars, parVars>>

\* 435-436: subprocess.run(["arecord", "-l"]) outside any try; with no
\* such executable it raises FileNotFoundError, which leaves the function.
DetectRun ==
    /\ d_pc = "d_run"
    /\ d_pc' = IF d_tool THEN "d_loop" ELSE "d_raised"
    /\ alsa_card' = -1
    /\ UNCHANGED <<d_tool, d_rest, d_sd, audio_device, audio_enabled,
                   audio_device_sd>>
    /\ UNCHANGED <<stateVars, envVars, mainVars, page, callVars, trigVars,
                   fgVars, hatVars, audioVars, uiVars, parVars>>

\* 437-446: one iteration of the loop over the listing; the first matching
\* line ends the loop whether or not its card number parses.
DetectLine ==
    /\ d_pc = "d_loop"
    /\ IF d_rest = <<>>
         THEN /\ d_pc' = "d_test"
              /\ UNCHANGED <<d_rest, alsa_card>>
         ELSE IF Head(d_rest).match
         THEN /\ alsa_card' = Head(d_rest).card
              /\ d_pc' = "d_test"
              /\ UNCHANGED d_rest
         ELSE /\ d_rest' = Tail(d_rest)
              /\ UNCHANGED <<d_pc, alsa_card>>
    /\ UNCHANGED <<d_tool, d_sd, audio_device, audio_enabled, audio_device_sd>>
    /\ UNCHANGED <<stateVars, envVars, mainVars, page, callVars, trigVars,
                   fgVars, hatVars, audioVars, uiVars, parVars>>

\* 448-455: no card found disables audio and returns.
DetectTest ==
    /\ d_pc = "d_test"
    /\ IF alsa_card = -1
         THEN /\ audio_device' = -1
              /\ audio_enabled' = FALSE
              /\ d_pc' = "d_ret"
         ELSE /\ audio_device' = alsa_card
              /\ d_pc' = "d_sd"
              /\ UNCHANGED audio_enabled
    /\ UNCHANGED <<d_tool, d_rest, d_sd, alsa_card, audio_device_sd>>
    /\ UNCHANGED <<stateVars, envVars, mainVars, page, callVars, trigVars,
                   fgVars, hatVars, audioVars, uiVars, parVars>>

\* 458-471: the sounddevice index for the meter.
DetectSd ==
    /\ d_pc = "d_sd"
    /\ audio_device_sd' = IF d_sd.kind = "no_module" THEN audio_device_sd
                          ELSE d_sd.idx
    /\ d_pc' = "d_ret"
    /\ UNCHANGED <<d_tool, d_rest, d_sd, alsa_card, audio_device, audio_enabled>>
    /\ UNCHANGED <<stateVars, envVars, mainVars, page, callVars, trigVars,
                   fgVars, hatVars, audioVars, uiVars, parVars>>

NextDetect ==
    \/ DetectCall
    \/ DetectRun
    \/ DetectLine
    \/ DetectTest
    \/ DetectSd

SpecDetect == Init /\ [][NextDetect]_vars

\* C31: when the arecord executable is missing, detect_audio_device ends
\* by returning (it does not raise), with state.audio_device None and
\* state.audio_enabled False.
C31_MissingToolDisablesAudio ==
    (~d_tool /\ d_pc \in {"d_ret", "d_raised"})
       => (d_pc = "d_ret" /\ audio_device = -1 /\ ~audio_enabled)

\* ------------------------------------- record intent in headless mode
\* main 1661-1665 starts the HatUI before the mode is chosen, so with
\* --hat the HAT thread runs next to run_headless as it does next to
\* run_gui, and KEY1 sets state.record_trigger.
NextHeadlessHat ==
    \/ NextHeadless
    \/ HatKey1

SpecHeadlessHat ==
    InitHeadless /\ [][NextHeadlessHat]_vars /\ WF_vars(HeadlessProgress)

\* C34: whenever state.record_trigger is set, the foreground loop of the
\* running mode eventually clears it (here: or the program has ended).
C34_IntentConsumed ==
    record_trigger ~> (~record_trigger \/ pc \in {"exited", "crashed"})

\* ------------------------------------------------------- main._exit
\* 1669-1671: SIGINT / SIGTERM.  Python runs the handler in the main
\* thread between two bytecodes, so wherever the foreground thread is,
\* inside start_recording or stop_recording included.  The handler stops
\* the recording only if state.recording; ret = "x_hat" from here on exactly
\* when it has called stop_recording.
SignalHandler ==
    /\ pc \notin {"x_hat", "exited", "crashed"}
    /\ ret # "x_hat"
    /\ IF recording
         THEN Enter("sp_check", "x_hat")
         ELSE pc' = "x_hat" /\ UNCHANGED <<ret, callVars>>
    /\ UNCHANGED <<fgVars, periVars, stateVars, envVars, result, target, fail_count,
                   last_frame, page, trigVars>>

\* 1672-1675: hat.stop(), state.save_config(), sys.exit(0).  run_gui has no
\* try/finally around its loop: the program ends here.
SignalExit ==
    /\ pc = "x_hat"
    /\ pc' = "exited"
    /\ UNCHANGED <<fgVars, periVars, stateVars, envVars, ret, result, target, fail_count,
                   last_frame, page, callVars, trigVars>>

NextSignal ==
    \/ GuiSteps
    \/ StartSteps \/ StopSteps
    \/ EncoderExits
    \/ HatKey1
    \/ SignalHandler
    \/ SignalExit

SpecSignal == InitGui /\ [][NextSignal]_vars

\* C38: when the signal handler is about to end the program, every encoder
\* still running has been handed to stop_recording by the handler.
C38_NoEncoderOutlivesProgram ==
    pc = "x_hat" => (alive = {} \/ ret = "x_hat")

\* ------------------------------------------------- HatUI render thread
uiRest == <<stateVars, envVars, mainVars, page, callVars, trigVars, hatVars,
            audioVars, detVars, parVars>>

\* HatUI.start 512-515: clear the stop event, start the thread on _run.
HatStart ==
    /\ u_pc = "u_none"
    /\ u_stop' = FALSE
    /\ u_pc' = "u_loop"
    /\ UNCHANGED <<uiRest, fgVars>>

\* HatUI.stop 518: self._stop.set()
HatStop ==
    /\ u_pc # "u_none"
    /\ ~u_stop
    /\ u_stop' = TRUE
    /\ UNCHANGED <<uiRest, fgVars, u_pc>>

\* HatUI.stop 519-521: join(timeout=3) returns, because the render thread
\* has ended or because the 3 s have passed, then self.grabber.stop()
\* sets the FrameGrabber's stop event.
HatStopGrabber ==
    /\ u_stop
    /\ ~fg_stop
    /\ fg_stop' = TRUE
    /\ UNCHANGED <<uiRest, uiVars, fgObs, fg_lock, fg_frame, fg_ok, fg_fed,
                   fg_late, wcap_open, w_pc, w_arg, f_pc, f_arg, gt_pc, got>>

\* Variant of RenderLoopTest that does not look at the stop event.
RenderLoopTest_IgnoresStop ==
    /\ u_pc = "u_loop"
    /\ u_pc' = "u_body"
    /\ UNCHANGED <<uiRest, fgVars, u_stop>>

\* _run 757: while not self._stop.is_set()
RenderLoopTest ==
    /\ u_pc = "u_loop"
    /\ u_pc' = IF u_stop THEN "u_done" ELSE "u_body"
    /\ UNCHANGED <<uiRest, fgVars, u_stop>>

\* _run 758-764: _handle_input() and _render(); the page drawn decides
\* whether the grabber's get() is called (794, 905).  An exception is caught
\* and the iteration goes on to its sleep.
RenderBody ==
    /\ u_pc = "u_body"
    /\ \/ /\ u_pc' = "u_get"
          /\ gt_pc' = "gt_lock"
       \/ /\ u_pc' = "u_sleep"
          /\ UNCHANGED gt_pc
    /\ UNCHANGED <<uiRest, u_stop, fgObs, fg_lock, fg_frame, fg_ok, fg_fed,
                   fg_stop, fg_late, wcap_open, w_pc, w_arg, f_pc, f_arg, got>>

\* _run 761: get() has returned, the image is displayed.
RenderGot ==
    /\ u_pc = "u_get"
    /\ gt_pc = "gt_idle"
    /\ u_pc' = "u_sleep"
    /\ UNCHANGED <<uiRest, fgVars, u_stop>>

\* _run 765: time.sleep of what is left of INTERVAL.
RenderSleep ==
    /\ u_pc = "u_sleep"
    /\ u_pc' = "u_loop"
    /\ UNCHANGED <<uiRest, fgVars, u_stop>>

RenderSteps ==
    \/ RenderLoopTest \/ RenderBody \/ RenderGot \/ RenderSleep

\* ------------------------------------------------ stopping the workers
\* The AudioMeter shares no state with the FrameGrabber and the HatUI: a
\* behaviour follows either the AudioMeter, or the FrameGrabber with the
\* HatUI render thread as the only caller of get().  main starts the HatUI
\* (1665) before run_gui starts and feeds its grabber (774, 823), and the
\* grabber's stop() is called by HatUI.stop (521) only.
GrabberSide == a_pc = "a_none"
HatStarted  == u_pc # "u_none"
MeterSide   == w_pc = "w_none" /\ u_pc = "u_none" /\ f_pc = "f_idle" /\ ~fg_fed

MeterRuns == MeterOpen \/ MeterLoopTest \/ MeterBlock \/ MeterError

NextStop ==
    \/ /\ GrabberSide
       /\ HatStart
    \/ /\ GrabberSide
       /\ HatStarted
       /\ \/ FgStart \/ FgDeadline
          \/ RunSteps \/ FeedSteps
          \/ GetAcquire \/ GetCopy
          \/ HatStop \/ HatStopGrabber
          \/ RenderSteps
    \/ /\ MeterSide
       /\ NextAudio

SpecStop == Init /\ [][NextStop]_vars

\* Every thread runs on: its sleeps and blocking reads return, it gets the
\* lock when the lock is free again and again, a feed_frame or get that
\* holds the lock finishes, and a stop() that was entered runs on.
SpecStopFair ==
    /\ SpecStop
    /\ WF_vars(GrabberSide /\ RunSteps)
    /\ SF_vars(GrabberSide /\ (RunAcquire \/ RunFeedAcquire))
    /\ WF_vars(GrabberSide /\ (FeedStoreFrame \/ FeedStoreOk \/ FeedStoreFed))
    /\ WF_vars(GrabberSide /\ GetCopy)
    /\ SF_vars(GrabberSide /\ GetAcquire)
    /\ WF_vars(GrabberSide /\ RenderSteps)
    /\ WF_vars(GrabberSide /\ HatStopGrabber)
    /\ WF_vars(MeterSide /\ MeterRuns)

\* C33: once stop() has set the stop event of a running worker (the
\* FrameGrabber in any of its modes, the AudioMeter, the HatUI render
\* loop), the worker's thread ends.  A stop event stays set while its
\* thread exists and a thread that has ended stays ended, so this is: again
\* and again, every running worker whose stop event is set has ended.
C33_StopTerminatesWorker ==
    []<>(/\ (fg_stop /\ w_pc # "w_none") => (w_pc = "w_done")
         /\ (a_stop /\ a_pc \notin {"a_none", "a_off"})
               => (a_pc \in {"a_done", "a_err"})
         /\ u_stop => (u_pc = "u_done"))

\* The FrameGrabber has served the HatUI in passive mode, and both threads
\* have ended after stop().
C33_Witness ==
    /\ fg_stop /\ w_pc = "w_done" /\ fg_fed /\ ~wcap_open
    /\ u_stop /\ u_pc = "u_done" /\ got # 0

\* ------------------------------------------- adjustable parameters
PAGES == <<"LIVE", "STATUS", "EXPOSURE", "WHITE BAL", "FOCUS", "DISPLAY",
           "AUDIO", "FORMAT", "STORAGE">>
PageName == PAGES[page + 1]

Min(a, b) == IF a < b THEN a ELSE b
Max(a, b) == IF a > b THEN a ELSE b
Abs(a) == IF a < 0 THEN 0 - a ELSE a

\* focus_absolute maxima a camera may report: below and above FOCUS_MAX.
CamFocusMaxes == {100, 1023}

\* What v4l2_get returns for focus_absolute (361-371): -1 stands for None
\* (v4l2-ctl failed), else the lens position, which autofocus may have
\* left anywhere in the camera's range.
CamFocusReads == {-1, 0, cam_max \div 2, cam_max}

\* What v4l2_get returns for white_balance_temperature after the one-shot
\* auto white balance: -1 stands for None, else a temperature.
CamWbReads == {-1, 2800, 6500}

parRest == <<stateVars, envVars, mainVars, callVars, trigVars, fgVars,
             hatVars, audioVars, detVars, uiVars>>

\* One more command is handled.
Command ==
    /\ cam_max # 0
    /\ n_cmd < MaxCmd
    /\ n_cmd' = n_cmd + 1
    /\ UNCHANGED cam_max

\* detect_focus_range 381-398, called before the loop (733, 1346): the
\* focus_absolute line of v4l2-ctl --list-ctrls is parsed token by token
\* with int(); a token such as flags=inactive (shown while autofocus is
\* on) makes the parse raise, and focus_max and focus stay as they were.
DetectFocusRange ==
    /\ cam_max = 0
    /\ \E m \in CamFocusMaxes, parsed \in BOOLEAN :
          /\ cam_max' = m
          /\ cs' = IF parsed
                     THEN [cs EXCEPT !.focus_max = m,
                                     !.focus = Max(0, Min(cs.focus, m))]
                     ELSE cs
    /\ UNCHANGED <<parRest, page, p_sub, n_cmd>>

\* _key3 650-654: the preset after the one nearest to wb_temp.
presets == <<3200, 4300, 5600, 6500, 7500>>
NearestPreset(t) ==
    CHOOSE i \in 1..Len(presets) :
       /\ \A j \in 1..Len(presets) : Abs(presets[i] - t) <= Abs(presets[j] - t)
       /\ \A j \in 1..(i - 1) : Abs(presets[j] - t) > Abs(presets[i] - t)
NextPreset(t) == presets[(NearestPreset(t) % Len(presets)) + 1]

\* _adjust 682-708, JOY UP (direction +1) and JOY DOWN (-1), press or
\* repeat.
AdjustValue(direction) ==
    CASE PageName = "EXPOSURE" /\ p_sub = 0 /\ ~cs.auto_exp ->
           [cs EXCEPT !.exposure =
               Max(50, Min(10000, cs.exposure
                     + direction * (IF cs.exposure < 2000 THEN 50 ELSE 200)))]
      [] PageName = "EXPOSURE" /\ ~(p_sub = 0 /\ ~cs.auto_exp) /\ p_sub = 1 ->
           [cs EXCEPT !.gain = Max(0, Min(500, cs.gain + direction * 10))]
      [] PageName = "WHITE BAL" /\ ~cs.auto_wb ->
           [cs EXCEPT !.wb_temp = Max(2000, Min(10000, cs.wb_temp + direction * 100))]
      [] PageName = "FOCUS" /\ ~cs.auto_focus ->
           [cs EXCEPT !.focus =
               Max(FOCUS_MIN, Min(cs.focus_max, cs.focus + direction * FOCUS_STEP_COARSE))]
      [] PageName = "AUDIO" ->
           [cs EXCEPT !.mic_gain_db = Max(-20, Min(20, cs.mic_gain_db + direction * 3))]
      [] PageName = "FORMAT" ->
           [cs EXCEPT !.output_format_idx = (cs.output_format_idx + direction) % N_FORMATS]
      [] OTHER -> cs

HatAdjust ==
    /\ Command
    /\ \E direction \in {1, -1} :
          /\ cs' = AdjustValue(direction)
          /\ p_sub' = IF PageName = "DISPLAY" THEN (p_sub + direction) % 3
                      ELSE p_sub
    /\ UNCHANGED <<parRest, page>>

\* _handle_input 574-576 with _toggle_auto 597-637: KEY2.  Leaving
\* autofocus on the FOCUS page seeds the manual position from the camera.
HatToggleAuto ==
    /\ Command
    /\ \/ /\ PageName \in {"LIVE", "STATUS", "EXPOSURE"}
          /\ cs' = [cs EXCEPT !.auto_exp = ~cs.auto_exp]
       \/ /\ PageName = "WHITE BAL"
          /\ cs' = [cs EXCEPT !.auto_wb = ~cs.auto_wb]
       \/ /\ PageName = "FOCUS"
          /\ \E cur \in CamFocusReads :
                cs' = [cs EXCEPT !.auto_focus = ~cs.auto_focus,
                                 !.focus = IF cs.auto_focus /\ cur # -1
                                             THEN cur ELSE cs.focus]
       \/ /\ PageName = "FORMAT"
          /\ cs' = [cs EXCEPT !.output_format_idx =
                                  (cs.output_format_idx + 1) % N_FORMATS]
       \/ /\ PageName \in {"DISPLAY", "AUDIO", "STORAGE"}
          /\ UNCHANGED cs
    /\ UNCHANGED <<parRest, page, p_sub>>

\* _handle_input 578-584 with _key3 640-679: KEY3 off the LIVE page.
HatKey3 ==
    /\ Command
    /\ cs' = CASE PageName = "STATUS" ->
                   [cs EXCEPT !.output_format_idx =
                                 (cs.output_format_idx + 1) % N_FORMATS]
                [] PageName = "WHITE BAL" ->
                   [cs EXCEPT !.wb_temp = NextPreset(cs.wb_temp)]
                [] PageName = "AUDIO" ->
                   [cs EXCEPT !.mic_gain_db = 0]
                [] OTHER -> cs
    /\ p_sub' = CASE PageName = "EXPOSURE" -> 1 - p_sub
                  [] PageName = "DISPLAY" -> (p_sub + 1) % 3
                  [] OTHER -> p_sub
    /\ clip_number' = IF PageName = "STORAGE" THEN 1 ELSE clip_number
    /\ UNCHANGED <<recording, ffmpeg_proc, rec_start, record_trigger, envVars,
                   mainVars, callVars, trigVars, fgVars, hatVars, audioVars,
                   detVars, uiVars, page>>

\* _handle_input 592-594 with _joy_press 711-748: JOY PRESS.  One-shot
\* auto white balance / autofocus, then the value the camera settled on is
\* read back ("if cur": None and 0 are both skipped).
HatJoyPress ==
    /\ Command
    /\ \/ /\ PageName \in {"LIVE", "STATUS"}
          /\ cs' = [cs EXCEPT !.output_format_idx =
                                  (cs.output_format_idx + 1) % N_FORMATS]
       \/ /\ PageName = "WHITE BAL"
          /\ \E cur \in CamWbReads :
                cs' = [cs EXCEPT !.auto_wb = FALSE,
                                 !.wb_temp = IF cur \notin {-1, 0}
                                               THEN cur ELSE cs.wb_temp]
       \/ /\ PageName = "FOCUS"
          /\ \E cur \in CamFocusReads :
                cs' = [cs EXCEPT !.auto_focus = FALSE,
                                 !.focus = IF cur \notin {-1, 0}
                                             THEN cur ELSE cs.focus]
       \/ /\ PageName \notin {"LIVE", "STATUS", "WHITE BAL", "FOCUS"}
          /\ UNCHANGED cs
    /\ UNCHANGED <<parRest, page, p_sub>>

\* run_gui 945-1040 (run_headless 1458-1513 has the same arithmetic): the
\* keys that change a parameter.
ParamKeys == {"e", "d", "g", "f", "w", "s", "a", "b", "t", "]", "[", ".",
              ",", "+", "-", "p"}

KeyValue(key, cur) ==
    CASE key = "e" -> [cs EXCEPT !.exposure = Min(cs.exposure + 50, 10000)]
      [] key = "d" -> [cs EXCEPT !.exposure = Max(cs.exposure - 50, 50)]
      [] key = "g" -> [cs EXCEPT !.gain = Min(cs.gain + 10, 500)]
      [] key = "f" -> [cs EXCEPT !.gain = Max(cs.gain - 10, 0)]
      [] key = "w" -> [cs EXCEPT !.wb_temp = Min(cs.wb_temp + 100, 10000)]
      [] key = "s" -> [cs EXCEPT !.wb_temp = Max(cs.wb_temp - 100, 2000)]
      [] key = "a" -> [cs EXCEPT !.auto_exp = ~cs.auto_exp]
      [] key = "b" -> [cs EXCEPT !.auto_wb = ~cs.auto_wb]
      [] key = "t" -> [cs EXCEPT !.auto_focus = ~cs.auto_focus,
                                 !.focus = IF cs.auto_focus /\ cur # -1
                                             THEN cur ELSE cs.focus]
      [] key = "]" /\ ~cs.auto_focus ->
           [cs EXCEPT !.focus = Min(cs.focus + FOCUS_STEP_COARSE, cs.focus_max)]
      [] key = "[" /\ ~cs.auto_focus ->
           [cs EXCEPT !.focus = Max(cs.focus - FOCUS_STEP_COARSE, FOCUS_MIN)]
      [] key = "." /\ ~cs.auto_focus ->
           [cs EXCEPT !.focus = Min(cs.focus + FOCUS_STEP_FINE, cs.focus_max)]
      [] key = "," /\ ~cs.auto_focus ->
           [cs EXCEPT !.focus = Max(cs.focus - FOCUS_STEP_FINE, FOCUS_MIN)]
      [] key = "+" -> [cs EXCEPT !.mic_gain_db = Min(cs.mic_gain_db + 3, 20)]
      [] key = "-" -> [cs EXCEPT !.mic_gain_db = Max(cs.mic_gain_db - 3, -20)]
      [] key = "p" -> [cs EXCEPT !.output_format_idx =
                                    (cs.output_format_idx + 1) % N_FORMATS]
      [] OTHER -> cs

GuiParamKey ==
    /\ Command
    /\ \E key \in ParamKeys, cur \in CamFocusReads : cs' = KeyValue(key, cur)
    /\ UNCHANGED <<parRest, page, p_sub>>

NextParams ==
    \/ DetectFocusRange
    \/ HatJoyLeft \/ HatJoyRight
    \/ HatAdjust \/ HatToggleAuto \/ HatKey3 \/ HatJoyPress
    \/ GuiParamKey

SpecParams == Init /\ [][NextParams]_vars

\* C39: every adjustable parameter is in its range: exposure 50..10000,
\* gain 0..500, wb_temp 2000..10000, mic_gain_db -20..20, focus
\* 0..focus_max, output_format_idx 0..N_FORMATS-1, page 0..N_PAGES-1.
C39_ParamsInRange ==
    /\ cs.exposure \in 50..10000
    /\ cs.gain \in 0..500
    /\ cs.wb_temp \in 2000..10000
    /\ cs.mic_gain_db \in -20..20
    /\ cs.focus \in 0..cs.focus_max
    /\ cs.output_format_idx \in 0..(N_FORMATS - 1)
    /\ page \in 0..(N_PAGES - 1)

====
